---- MODULE Spec2Model ----
(***************************************************************************)
(* Smart plant light controller: the relay's dwell gate (RelayController)  *)
(* and the decision engine (PlantController) with the collaborators it     *)
(* reads (TimeManager, LightSensor), as state machines over the            *)
(* millisecond counter millis().                                           *)
(*                                                                         *)
(* millis() is an unsigned long that wraps.  TLC's integers are signed 32  *)
(* bit, so the counter is kept modulo ULONG_RANGE = 2^30 instead of 2^32:  *)
(* every interval of the program (at most 86400000 ms) is far below the    *)
(* range, and sums of two counter values stay below 2^31.                  *)
(***************************************************************************)
EXTENDS Integers, Sequences, FiniteSets, TLC

VARIABLES
    now,             \* millis(): the millisecond counter, modulo ULONG_RANGE
    advances,        \* number of Advance steps taken (bounds the run)
    \* RelayController
    relayBegun,      \* RelayController::begin() has run (main.cpp calls it once)
    currentState,    \* RelayController::currentState
    lastSwitchTime,  \* RelayController::lastSwitchTime
    \* LightSensor
    sensorInitialized,
    readingBuffer,   \* the SENSOR_SAMPLES slots, 1-based
    bufferIndex,     \* 0-based as in the code
    bufferFull,
    currentAverageLux,  \* the float sum / samplesCount kept as [num, den]
    lastRawLux,
    readingCount,
    lastReadingTime,
    \* TimeManager and its NTP client
    timeBegun,       \* TimeManager::begin() has run (main.cpp calls it once)
    timeValid,
    lastSyncAttempt,
    lastSuccessfulSync,
    syncCount,
    ntpTimeSet,      \* NTPClient::isTimeSet()
    ntpHours,        \* NTPClient::getHours()
    \* PlantController
    lastDecision,
    lastReason,
    lastDecisionTime,
    lastUpdateTime,
    decisionCount,
    relayChanges,
    automaticControlEnabled,
    \* WiFiManager and the WiFi link
    wifiBegun,       \* WiFiManager::begin() has run (main.cpp calls it once)
    currentStatus,   \* WiFiManager::currentStatus
    lastConnectionAttempt,
    lastSuccessfulConnection,
    reconnectInterval,
    connectionAttempts,
    linkStatus,      \* WiFi.status()
    \* setup() and loop()
    pc,              \* where main.cpp is: "setup" until SpecBoot runs setup()
    wifiStartTime,   \* waitForSystemReady()'s local, main.cpp:141
    timeStartTime,   \* waitForSystemReady()'s local, main.cpp:161
    \* observation variables (not program state)
    sinceConnect,    \* real ms since connect() was last entered, saturating at ULONG_RANGE; -1: never
    failures,        \* failed connect() calls since the last successful one
    wrapped,         \* the counter passed zero since the last successful sync (or since boot)
    statusTrace,     \* the values currentStatus took in the last step, the one it started with first
    sinceSwitch,     \* real ms since lastSwitchTime was written, saturating at ULONG_RANGE
    sinceChange,     \* real ms since currentState last changed, saturating at the dwell; -1: never
    timerBy,         \* the operation that wrote lastSwitchTime last
    accepted,        \* the samples updateReading() accepted since the last reset, oldest first
    sinceReading,    \* real ms since updateReading() last accepted a sample, saturating at the recency window; -1: never
    sinceAttempt,    \* real ms since syncTime() was last called, saturating at the retry spacing; -1: never
    sinceSync,       \* real ms since syncTime() last succeeded, saturating one past the sync interval; -1: never
    sinceUpdate,     \* real ms since update() last wrote lastUpdateTime, saturating at the poll interval; -1: never
    ev               \* the last operation: what was asked, what it saw, what it returned

relayVars == <<relayBegun, currentState, lastSwitchTime>>
sensorVars == <<sensorInitialized, readingBuffer, bufferIndex, bufferFull,
                currentAverageLux, lastRawLux, readingCount, lastReadingTime>>
timeVars == <<timeBegun, timeValid, lastSyncAttempt, lastSuccessfulSync, syncCount,
              ntpTimeSet, ntpHours>>
plantVars == <<lastDecision, lastReason, lastDecisionTime, lastUpdateTime,
               decisionCount, relayChanges, automaticControlEnabled>>
wifiVars == <<wifiBegun, currentStatus, lastConnectionAttempt, lastSuccessfulConnection,
              reconnectInterval, connectionAttempts, linkStatus>>
bootVars == <<pc, wifiStartTime, timeStartTime>>
ghostVars == <<sinceSwitch, sinceChange, timerBy, sinceUpdate, accepted,
               sinceReading, sinceAttempt, sinceSync, sinceConnect, failures,
               statusTrace, wrapped>>
vars == <<now, advances, relayVars, sensorVars, timeVars, plantVars, wifiVars,
          bootVars, ghostVars, ev>>

----------------------------------------------------------------------------
(* Constants of the program and bounds of the model *)

ULONG_RANGE == 2^30

MIN_SWITCH_INTERVAL_MS == 60000

NTP_UPDATE_INTERVAL_MS == 86400000

\* minSyncInterval of TimeManager::shouldAttemptSync()
MIN_SYNC_INTERVAL_MS == 60000

WIFI_TIMEOUT_MS == 10000

\* reconnectInterval of the constructor and of a successful connect()
BASE_RECONNECT_INTERVAL_MS == 30000

\* the cap of reconnectInterval in connect()
MAX_RECONNECT_INTERVAL_MS == 300000

\* the delay(100) of forceReconnect()
FORCE_RECONNECT_DELAY_MS == 100

\* the delay(250) of connect()'s wait loop
CONNECT_POLL_MS == 250

MaxAttempts == 5
MaxAdvancesHeal == 2
MaxAttemptsLoop == 1
MaxAdvancesWifi == 2

\* ULONG_MAX of the modelled counter
ULONG_MAX == ULONG_RANGE - 1

CHECK_INTERVAL_MS == 30000

LIGHT_START_HOUR == 8

LIGHT_END_HOUR == 23

LIGHT_THRESHOLD_LUX == 100

SENSOR_SAMPLES == 5

\* updateReading() rejects readings above this (lightsensor.cpp:76)
MAX_VALID_LUX == 120000

\* isSensorHealthy(): a reading is recent for this long (lightsensor.cpp:115)
SENSOR_RECENT_MS == 60000

\* Advance steps per run in the relay specification.
MaxAdvancesRelay == 5

\* Advance steps per run in the specification of the decision engine.
MaxAdvances == 2

\* Accepted readings and Advance steps of a run of SpecAverage.
MaxReadingsAverage == 7

MaxAdvancesAverage == 1

\* Advance steps of a run of SpecTime.
MaxAdvancesTime == 4

\* Advance steps of a run of SpecPoll.
MaxAdvancesPoll == 4

\* Evaluated decisions per run (decisionCount stops here).
MaxDecisions == 2

\* Accepted sensor readings per run (readingCount stops here).
MaxReadings == 2

\* Successful time syncs per run (syncCount stops here).
MaxSyncs == 2

\* A jump that brings the counter to one millisecond before it wraps when
\* taken one dwell interval after start.
BigJump == ULONG_RANGE - MIN_SWITCH_INTERVAL_MS - 1

DeltasRelay == {1, MIN_SWITCH_INTERVAL_MS - 1, MIN_SWITCH_INTERVAL_MS, BigJump}

Min(a, b) == IF a <= b THEN a ELSE b

\* unsigned long subtraction a - b
USub(a, b) == (a - b) % ULONG_RANGE

\* unsigned long addition a + d
UAdd(a, d) == (a + d) % ULONG_RANGE

\* No value was read from the light sensor.
NoSample == [nan |-> TRUE, v |-> -1]

NoEvent ==
    [op |-> "construct", arg |-> FALSE, ret |-> FALSE, requested |-> FALSE,
     prev |-> FALSE, since |-> 0, last |-> 0,
     evaluated |-> FALSE, valid |-> FALSE, healthy |-> FALSE, open |-> FALSE,
     sample |-> NoSample, window |-> <<-1, -1>>,
     status |-> "", interval |-> 0]

\* What an operation was asked and returned, with the relay state it found.
\* requested: the operation called setRelayState(arg), which returned ret;
\* since, last: the real time since the relay's timer was written and the
\* timer value, as that call found them.
Event(name, arg, ret, requested) ==
    [NoEvent EXCEPT !.op = name, !.arg = arg, !.ret = ret, !.requested = requested,
                    !.prev = currentState,
                    !.since = IF requested THEN sinceSwitch ELSE 0,
                    !.last = IF requested THEN lastSwitchTime ELSE 0]

RelayEvent(name, arg, ret) ==
    [NoEvent EXCEPT !.op = name, !.arg = arg, !.ret = ret,
                    !.requested = (name = "setRelayState"),
                    !.prev = currentState, !.since = sinceSwitch,
                    !.last = lastSwitchTime]

\* A tick of the decision engine that evaluated a decision, with the three
\* answers the health gate got.
TickEvent(name, arg, ret, requested, valid, healthy, open) ==
    [Event(name, arg, ret, requested) EXCEPT !.evaluated = TRUE, !.valid = valid,
                                             !.healthy = healthy, !.open = open]

\* The observation variables after a step that took d milliseconds and at its
\* end wrote the timer (wrote) and changed the relay state (changed); ran: the
\* step is an update() that passed its interval check at the step's start;
\* samples: the samples accepted since the last reset, after the step;
\* attempted, synced: the step called syncTime() at its start, with success.
ObserveCore(d, wrote, changed, by, ran, samples, attempted, synced) ==
    /\ sinceSwitch' = IF wrote THEN 0 ELSE Min(sinceSwitch + d, ULONG_RANGE)
    /\ sinceChange' = IF changed THEN 0
                      ELSE IF sinceChange < 0 THEN sinceChange
                      ELSE Min(sinceChange + d, MIN_SWITCH_INTERVAL_MS)
    /\ timerBy' = IF wrote THEN by ELSE timerBy
    /\ sinceUpdate' = IF ran THEN d
                      ELSE IF sinceUpdate < 0 THEN sinceUpdate
                      ELSE Min(sinceUpdate + d, CHECK_INTERVAL_MS)
    /\ accepted' = samples
    /\ sinceReading' = IF Len(samples) = Len(accepted) + 1 THEN d
                       ELSE IF sinceReading < 0 THEN sinceReading
                       ELSE Min(sinceReading + d, SENSOR_RECENT_MS)
    /\ sinceAttempt' = IF attempted THEN d
                       ELSE IF sinceAttempt < 0 THEN sinceAttempt
                       ELSE Min(sinceAttempt + d, MIN_SYNC_INTERVAL_MS)
    /\ sinceSync' = IF attempted /\ synced THEN d
                    ELSE IF sinceSync < 0 THEN sinceSync
                    ELSE Min(sinceSync + d, NTP_UPDATE_INTERVAL_MS + 1)
    /\ wrapped' = IF attempted /\ synced THEN FALSE
                  ELSE wrapped \/ now + d >= ULONG_RANGE

\* The observation variables of the WiFi manager after a step that took d
\* milliseconds; entered: the step entered connect() at its start, and
\* connected says how that ended; trace: the values currentStatus took.
ObserveWifi(d, entered, connected, trace) ==
    /\ sinceConnect' = IF entered THEN d
                       ELSE IF sinceConnect < 0 THEN sinceConnect
                       ELSE Min(sinceConnect + d, ULONG_RANGE)
    /\ failures' = IF ~entered THEN failures
                   ELSE IF connected THEN 0 ELSE failures + 1
    /\ statusTrace' = trace

ObserveEverything(d, wrote, changed, by, ran, samples, attempted, synced) ==
    /\ ObserveCore(d, wrote, changed, by, ran, samples, attempted, synced)
    /\ ObserveWifi(d, FALSE, FALSE, <<currentStatus>>)

ObserveAll(d, wrote, changed, by, ran, samples) ==
    ObserveEverything(d, wrote, changed, by, ran, samples, FALSE, FALSE)

ObserveRun(d, wrote, changed, by, ran) ==
    ObserveAll(d, wrote, changed, by, ran, accepted)

Observe(d, wrote, changed, by) == ObserveRun(d, wrote, changed, by, FALSE)

----------------------------------------------------------------------------
(* RelayController; t is the value millis() returns to the call *)

\* The bug of comparing the counter values as signed numbers: after the
\* counter wrapped the difference is negative.
GetTimeSinceLastSwitch_signed(t) == t - lastSwitchTime

GetTimeSinceLastSwitch(t) == USub(t, lastSwitchTime)

\* The bug of a strict comparison at the dwell boundary.
CanSwitchRelay_strict(t) == GetTimeSinceLastSwitch(t) > MIN_SWITCH_INTERVAL_MS

CanSwitchRelay(t) == GetTimeSinceLastSwitch(t) >= MIN_SWITCH_INTERVAL_MS

\* The bug of stamping the timer on every successful call, the idempotent
\* one included.
SetRelayResult_stamps(state, t) ==
    IF state # currentState /\ ~CanSwitchRelay(t)
    THEN [ret |-> FALSE, state |-> currentState, time |-> lastSwitchTime, wrote |-> FALSE]
    ELSE [ret |-> TRUE, state |-> state, time |-> t, wrote |-> TRUE]

\* The bug of leaving the dwell gate out.
SetRelayResult_ungated(state, t) ==
    IF state = currentState
    THEN [ret |-> TRUE, state |-> currentState, time |-> lastSwitchTime, wrote |-> FALSE]
    ELSE [ret |-> TRUE, state |-> state, time |-> t, wrote |-> TRUE]

\* setRelayState(state) called at counter value t: the value it returns, the
\* relay fields it leaves, and whether it wrote them.
SetRelayResult(state, t) ==
    IF state = currentState
    THEN [ret |-> TRUE, state |-> currentState, time |-> lastSwitchTime, wrote |-> FALSE]
    ELSE IF ~CanSwitchRelay(t)
    THEN [ret |-> FALSE, state |-> currentState, time |-> lastSwitchTime, wrote |-> FALSE]
    ELSE [ret |-> TRUE, state |-> state, time |-> t, wrote |-> TRUE]

RelayBegin ==
    /\ ~relayBegun
    /\ relayBegun' = TRUE
    /\ currentState' = FALSE
    /\ lastSwitchTime' = now
    /\ Observe(0, TRUE, currentState # FALSE, "begin")
    /\ ev' = RelayEvent("begin", FALSE, TRUE)
    /\ UNCHANGED <<now, advances, wifiVars, sensorVars, timeVars, plantVars, bootVars>>

SetRelayState(state) ==
    LET r == SetRelayResult(state, now) IN
    /\ relayBegun
    /\ currentState' = r.state
    /\ lastSwitchTime' = r.time
    /\ Observe(0, r.wrote, r.state # currentState, "setRelayState")
    /\ ev' = RelayEvent("setRelayState", state, r.ret)
    /\ UNCHANGED <<relayBegun, now, advances, wifiVars, sensorVars, timeVars, plantVars, bootVars>>

\* The bug of an emergency stop that forgets to restart the dwell timer.
EmergencyStop_keepsTimer ==
    /\ relayBegun
    /\ currentState' = FALSE
    /\ Observe(0, FALSE, currentState # FALSE, "emergencyStop")
    /\ ev' = RelayEvent("emergencyStop", FALSE, TRUE)
    /\ UNCHANGED <<relayBegun, lastSwitchTime, now, advances, wifiVars,
                   sensorVars, timeVars, plantVars, bootVars>>

EmergencyStop ==
    /\ relayBegun
    /\ currentState' = FALSE
    /\ lastSwitchTime' = now
    /\ Observe(0, TRUE, currentState # FALSE, "emergencyStop")
    /\ ev' = RelayEvent("emergencyStop", FALSE, TRUE)
    /\ UNCHANGED <<relayBegun, now, advances, wifiVars, sensorVars, timeVars, plantVars, bootVars>>

----------------------------------------------------------------------------
(* The passage of time: millis() moves on by d milliseconds *)

AdvanceRelay ==
    /\ advances < MaxAdvancesRelay
    /\ advances' = advances + 1
    /\ \E d \in DeltasRelay :
          /\ now' = UAdd(now, d)
          /\ Observe(d, FALSE, FALSE, "advance")
    /\ ev' = [NoEvent EXCEPT !.op = "advance"]
    /\ UNCHANGED <<relayVars, sensorVars, timeVars, plantVars, wifiVars, bootVars>>

----------------------------------------------------------------------------
(* LightSensor *)

\* What veml.readLux() may return: NaN, or a number.
ReadLuxOutcomes ==
    {[nan |-> TRUE, v |-> 0]} \cup
    {[nan |-> FALSE, v |-> x] : x \in {-1, 50, 150, MAX_VALID_LUX + 1}}

EmptyBuffer == [i \in 1..SENSOR_SAMPLES |-> 0]

RECURSIVE SumFirst(_, _)
\* the loop of calculateAverage(): readingBuffer[0] + ... + readingBuffer[n-1]
SumFirst(buf, n) == IF n = 0 THEN 0 ELSE SumFirst(buf, n - 1) + buf[n]

\* The bug of dividing by the capacity before the buffer is full.
CalculateAverage_byCapacity(buf, idx, full) ==
    [num |-> SumFirst(buf, SENSOR_SAMPLES), den |-> SENSOR_SAMPLES]

\* calculateAverage() on a buffer: the quotient sum / samplesCount as the
\* fraction [num, den], 0.0 as 0/1.
CalculateAverage(buf, idx, full) ==
    LET samplesCount == IF full THEN SENSOR_SAMPLES ELSE idx IN
    IF samplesCount > 0
    THEN [num |-> SumFirst(buf, samplesCount), den |-> samplesCount]
    ELSE [num |-> 0, den |-> 1]

\* addToBuffer(): the buffer, the cursor and the full flag after the write.
AddToBuffer(buf, idx, full, newReading) ==
    LET written == [buf EXCEPT ![idx + 1] = newReading] IN
    IF idx + 1 >= SENSOR_SAMPLES
    THEN [buf |-> written, idx |-> 0, full |-> TRUE]
    ELSE [buf |-> written, idx |-> idx + 1, full |-> full]

\* The bug of a non-strict comparison with the threshold.
IsBelowThreshold_orEqual(thresholdLux) ==
    currentAverageLux.num <= thresholdLux * currentAverageLux.den

IsBelowThreshold(thresholdLux) ==
    currentAverageLux.num < thresholdLux * currentAverageLux.den

IsSensorHealthy(t) ==
    IF ~sensorInitialized THEN FALSE
    ELSE LET timeSinceLastReading == USub(t, lastReadingTime)
             recentReading == timeSinceLastReading < SENSOR_RECENT_MS
             validReading == lastRawLux >= 0
         IN recentReading /\ validReading

\* resetAveraging(), as the primed sensor fields it writes.
\* The bug of a reset that leaves the full flag as it is.
ResetAveraging_keepsFull ==
    /\ readingBuffer' = EmptyBuffer
    /\ bufferIndex' = 0
    /\ bufferFull' = bufferFull
    /\ currentAverageLux' = [num |-> 0, den |-> 1]

ResetAveraging ==
    /\ readingBuffer' = EmptyBuffer
    /\ bufferIndex' = 0
    /\ bufferFull' = FALSE
    /\ currentAverageLux' = [num |-> 0, den |-> 1]

\* LightSensor::begin() when the VEML7700 answers.  When it does not, begin()
\* changes nothing and main.cpp stops for good (main.cpp:128-131).
LightBegin ==
    /\ relayBegun /\ ~sensorInitialized
    /\ sensorInitialized' = TRUE
    /\ ResetAveraging
    /\ ev' = Event("lightBegin", FALSE, TRUE, FALSE)
    /\ ObserveAll(0, FALSE, FALSE, "lightBegin", FALSE, <<>>)
    /\ UNCHANGED <<lastRawLux, readingCount, lastReadingTime>>
    /\ UNCHANGED <<now, advances, wifiVars, relayVars, timeVars, plantVars, bootVars>>

\* The bug of checking no upper limit.
IsInvalidReading_noUpperLimit(newReading) ==
    newReading.nan \/ newReading.v < 0

\* updateReading()'s validation of the value read (lightsensor.cpp:76).
IsInvalidReading(newReading) ==
    newReading.nan \/ newReading.v < 0 \/ newReading.v > MAX_VALID_LUX

\* updateReading() when readLux() returns r, in a run of at most max
\* accepted readings.
UpdateReadingUpTo(r, max) ==
    /\ relayBegun
    /\ IF ~sensorInitialized
       THEN /\ ev' = Event("updateReading", FALSE, FALSE, FALSE)
            /\ Observe(0, FALSE, FALSE, "updateReading")
            /\ UNCHANGED sensorVars
       ELSE IF IsInvalidReading(r)
       THEN /\ ev' = [Event("updateReading", FALSE, FALSE, FALSE) EXCEPT !.sample = r]
            /\ Observe(0, FALSE, FALSE, "updateReading")
            /\ UNCHANGED sensorVars
       ELSE LET b == AddToBuffer(readingBuffer, bufferIndex, bufferFull, r.v) IN
            /\ readingCount < max
            /\ lastRawLux' = r.v
            /\ lastReadingTime' = now
            /\ readingCount' = readingCount + 1
            /\ readingBuffer' = b.buf
            /\ bufferIndex' = b.idx
            /\ bufferFull' = b.full
            /\ currentAverageLux' = CalculateAverage(b.buf, b.idx, b.full)
            /\ ev' = [Event("updateReading", FALSE, TRUE, FALSE) EXCEPT !.sample = r]
            /\ ObserveAll(0, FALSE, FALSE, "updateReading", FALSE, Append(accepted, r.v))
            /\ UNCHANGED sensorInitialized
    /\ UNCHANGED <<now, advances, wifiVars, relayVars, timeVars, plantVars, bootVars>>

UpdateReading(r) == UpdateReadingUpTo(r, MaxReadings)

\* resetAveraging() called from outside.
ResetAveragingCall ==
    /\ sensorInitialized
    /\ ResetAveraging
    /\ ev' = Event("resetAveraging", FALSE, FALSE, FALSE)
    /\ ObserveAll(0, FALSE, FALSE, "resetAveraging", FALSE, <<>>)
    /\ UNCHANGED <<sensorInitialized, lastRawLux, readingCount, lastReadingTime>>
    /\ UNCHANGED <<now, advances, wifiVars, relayVars, timeVars, plantVars, bootVars>>

----------------------------------------------------------------------------
(* TimeManager *)

\* The hours the NTP client answers with: the first hour inside the schedule
\* window and the first hour after it.
Hours == {LIGHT_START_HOUR, LIGHT_END_HOUR}

HasValidTime == timeValid /\ ntpTimeSet

GetCurrentHour == IF ~HasValidTime THEN -1 ELSE ntpHours

\* The bug of treating every window as one that does not cross midnight.
IsTimeInRangeWithDayBoundary_sameDay(startHour, endHour, currentHour) ==
    currentHour >= startHour /\ currentHour < endHour

IsTimeInRangeWithDayBoundary(startHour, endHour, currentHour) ==
    IF startHour <= endHour
    THEN currentHour >= startHour /\ currentHour < endHour
    ELSE currentHour >= startHour \/ currentHour < endHour

IsTimeInRange(startHour, endHour) ==
    IF ~HasValidTime THEN FALSE
    ELSE IsTimeInRangeWithDayBoundary(startHour, endHour, GetCurrentHour)

\* The bug of dropping the valid time when a sync fails.
SyncTimeFields_failureInvalidates(success) ==
    /\ success => syncCount < MaxSyncs
    /\ lastSyncAttempt' = now
    /\ IF success
       THEN /\ lastSuccessfulSync' = now
            /\ syncCount' = syncCount + 1
            /\ timeValid' = TRUE
       ELSE /\ timeValid' = FALSE
            /\ UNCHANGED <<lastSuccessfulSync, syncCount>>

\* syncTime() when ntpClient->forceUpdate() returns success, as the primed
\* fields of the TimeManager it writes.
\* The bug of a successful sync that stores the time of the attempt before
\* it instead of the time of the call.
SyncTimeFields_staleStamp(success) ==
    /\ success => syncCount < MaxSyncs
    /\ lastSyncAttempt' = now
    /\ IF success
       THEN /\ lastSuccessfulSync' = lastSyncAttempt
            /\ syncCount' = syncCount + 1
            /\ timeValid' = TRUE
       ELSE UNCHANGED <<lastSuccessfulSync, syncCount, timeValid>>

SyncTimeFields(success) ==
    /\ success => syncCount < MaxSyncs
    /\ lastSyncAttempt' = now
    /\ IF success
       THEN /\ lastSuccessfulSync' = now
            /\ syncCount' = syncCount + 1
            /\ timeValid' = TRUE
       ELSE UNCHANGED <<lastSuccessfulSync, syncCount, timeValid>>

\* syncTime(); a successful forceUpdate() leaves the client's time set.
SyncTime(success) ==
    /\ SyncTimeFields(success)
    /\ ntpTimeSet' = (ntpTimeSet \/ success)

\* TimeManager::begin(), called once WiFi is up (main.cpp:156-157).
TimeBegin ==
    /\ sensorInitialized /\ ~timeBegun
    /\ timeBegun' = TRUE
    /\ \E success \in BOOLEAN :
          /\ SyncTime(success)
          /\ ev' = Event("timeBegin", FALSE, success, FALSE)
          /\ ObserveEverything(0, FALSE, FALSE, "timeBegin", FALSE, accepted,
                               TRUE, success)
    /\ UNCHANGED <<ntpHours, now, advances, wifiVars, relayVars, sensorVars, plantVars, bootVars>>

\* syncTime() called from outside.
SyncTimeCall ==
    /\ timeBegun
    /\ \E success \in BOOLEAN :
          /\ SyncTime(success)
          /\ ev' = Event("syncTime", FALSE, success, FALSE)
          /\ ObserveEverything(0, FALSE, FALSE, "syncTime", FALSE, accepted,
                               TRUE, success)
    /\ UNCHANGED <<timeBegun, ntpHours, now, advances, wifiVars, relayVars, sensorVars,
                   plantVars, bootVars>>

GetTimeSinceLastSync(t) ==
    IF lastSuccessfulSync = 0 THEN ULONG_MAX ELSE USub(t, lastSuccessfulSync)

NeedsSync(t) ==
    ~timeValid \/ GetTimeSinceLastSync(t) >= NTP_UPDATE_INTERVAL_MS

\* The bug of retrying without any spacing.
ShouldAttemptSync_always(t) == TRUE

ShouldAttemptSync(t) == USub(t, lastSyncAttempt) >= MIN_SYNC_INTERVAL_MS

\* TimeManager::update(): a sync when one is needed and allowed, then
\* ntpClient->update(), after which the client's time may be set (fetched).
\* The event's arg says whether syncTime() was called, ret what it returned.
TimeUpdate ==
    /\ timeBegun
    /\ \E fetched \in BOOLEAN :
          IF NeedsSync(now) /\ ShouldAttemptSync(now)
          THEN \E success \in BOOLEAN :
                  /\ SyncTimeFields(success)
                  /\ ntpTimeSet' = (ntpTimeSet \/ success \/ fetched)
                  /\ ev' = Event("timeUpdate", TRUE, success, FALSE)
                  /\ ObserveEverything(0, FALSE, FALSE, "timeUpdate", FALSE, accepted,
                                       TRUE, success)
          ELSE /\ ntpTimeSet' = (ntpTimeSet \/ fetched)
               /\ ev' = Event("timeUpdate", FALSE, FALSE, FALSE)
               /\ Observe(0, FALSE, FALSE, "timeUpdate")
               /\ UNCHANGED <<lastSyncAttempt, lastSuccessfulSync, syncCount, timeValid>>
    /\ UNCHANGED <<timeBegun, ntpHours, now, advances, wifiVars, relayVars, sensorVars,
                   plantVars, bootVars>>

\* The wall clock reaches another hour, one of hours: what getHours()
\* returns changes.
NtpClockIn(hours) ==
    /\ timeBegun
    /\ \E h \in hours : h # ntpHours /\ ntpHours' = h
    /\ ev' = [NoEvent EXCEPT !.op = "ntpClock"]
    /\ Observe(0, FALSE, FALSE, "ntpClock")
    /\ UNCHANGED <<timeBegun, timeValid, lastSyncAttempt, lastSuccessfulSync,
                   syncCount, ntpTimeSet>>
    /\ UNCHANGED <<now, advances, wifiVars, relayVars, sensorVars, plantVars, bootVars>>

NtpClock == NtpClockIn(Hours)

\* isTimeInRange(startHour, endHour) is called; the event keeps the window
\* and the value returned.
IsTimeInRangeCall(startHour, endHour) ==
    /\ timeBegun
    /\ ev' = [NoEvent EXCEPT !.op = "isTimeInRange",
                             !.ret = IsTimeInRange(startHour, endHour),
                             !.window = <<startHour, endHour>>]
    /\ Observe(0, FALSE, FALSE, "isTimeInRange")
    /\ UNCHANGED <<now, advances, wifiVars, relayVars, sensorVars, timeVars, plantVars, bootVars>>

----------------------------------------------------------------------------
(* WiFiManager; t is the value millis() returns to the call *)

\* The values of WiFi.status() that updateStatus() tells apart: connected,
\* one of the cases it names, and one of its default branch.
LinkStatuses == {"WL_CONNECTED", "WL_DISCONNECTED", "WL_IDLE_STATUS"}

LinkDown == LinkStatuses \ {"WL_CONNECTED"}

\* How long connect() waits: it leaves its loop as soon as the link is up,
\* here after one delay, and otherwise when connectionTimeout is over.
ConnectTimes(success) ==
    IF success THEN {CONNECT_POLL_MS} ELSE {WIFI_TIMEOUT_MS}

\* The bug of doubling without the cap.
NextReconnectInterval_uncapped(success) ==
    IF success THEN BASE_RECONNECT_INTERVAL_MS ELSE reconnectInterval * 2

\* reconnectInterval after a connect() that ended with success or without.
NextReconnectInterval(success) ==
    IF success THEN BASE_RECONNECT_INTERVAL_MS
    ELSE Min(reconnectInterval * 2, MAX_RECONNECT_INTERVAL_MS)

\* connect() entered at t: WiFi.begin(), the wait of dur milliseconds, after
\* which the link is up (success) or has the status down.
Connect(t, success, dur, down) ==
    /\ connectionAttempts < MaxAttempts
    /\ lastConnectionAttempt' = t
    /\ connectionAttempts' = connectionAttempts + 1
    /\ reconnectInterval' = NextReconnectInterval(success)
    /\ IF success
       THEN /\ currentStatus' = "Connected"
            /\ lastSuccessfulConnection' = UAdd(t, dur)
            /\ linkStatus' = "WL_CONNECTED"
       ELSE /\ currentStatus' = "Failed"
            /\ linkStatus' = down
            /\ UNCHANGED lastSuccessfulConnection
    /\ now' = UAdd(t, dur)

\* The values currentStatus takes in connect(), entered with status.
ConnectTrace(status, success) ==
    <<status, "Connecting", IF success THEN "Connected" ELSE "Failed">>

\* The steps of the other components do not look at the WiFi manager; what
\* they observe of their own state ages by d.
ObserveOthers(d, by) ==
    ObserveCore(d, FALSE, FALSE, by, FALSE, accepted, FALSE, FALSE)

\* What an operation of the WiFi manager found and did; arg: it entered
\* connect(), which returned ret; status, interval: currentStatus and
\* reconnectInterval as the operation found them; since: the real time since
\* connect() was last entered.
WifiEvent(name, entered, success) ==
    [NoEvent EXCEPT !.op = name, !.arg = entered, !.ret = success,
                    !.status = currentStatus, !.interval = reconnectInterval,
                    !.since = sinceConnect, !.last = lastConnectionAttempt]

\* WiFiManager::begin(): the initial connect().
WifiBegin ==
    /\ ~wifiBegun
    /\ wifiBegun' = TRUE
    /\ \E success \in BOOLEAN, down \in LinkDown :
          \E dur \in ConnectTimes(success) :
             /\ Connect(now, success, dur, down)
             /\ ev' = WifiEvent("wifiBegin", TRUE, success)
             /\ ObserveOthers(dur, "wifiBegin")
             /\ ObserveWifi(dur, TRUE, success, ConnectTrace(currentStatus, success))
    /\ UNCHANGED <<advances, relayVars, sensorVars, timeVars, plantVars, bootVars>>

\* connect() called from outside.
WifiConnect ==
    /\ wifiBegun
    /\ \E success \in BOOLEAN, down \in LinkDown :
          \E dur \in ConnectTimes(success) :
             /\ Connect(now, success, dur, down)
             /\ ev' = WifiEvent("connect", TRUE, success)
             /\ ObserveOthers(dur, "connect")
             /\ ObserveWifi(dur, TRUE, success, ConnectTrace(currentStatus, success))
    /\ UNCHANGED <<wifiBegun, advances, relayVars, sensorVars, timeVars, plantVars, bootVars>>

\* currentStatus after updateStatus().
UpdatedStatus ==
    IF linkStatus = "WL_CONNECTED" THEN "Connected"
    ELSE IF currentStatus = "Connected" THEN "Disconnected"
    ELSE currentStatus

\* lastSuccessfulConnection after updateStatus() at t.
UpdatedLastSuccessfulConnection(t) ==
    IF linkStatus = "WL_CONNECTED" /\ currentStatus # "Connected"
    THEN t ELSE lastSuccessfulConnection

\* The bug of retrying without waiting for the interval.
ShouldAttemptReconnect_always(status, t) == status # "Connecting"

\* shouldAttemptReconnect() at t, with currentStatus = status.
ShouldAttemptReconnect(status, t) ==
    /\ status # "Connecting"
    /\ USub(t, lastConnectionAttempt) >= reconnectInterval

\* The values currentStatus takes in updateStatus().
UpdateTrace ==
    IF UpdatedStatus = currentStatus THEN <<currentStatus>>
    ELSE <<currentStatus, UpdatedStatus>>

\* WiFiManager::update(): updateStatus(), then connect() when the manager
\* is not connected and a retry is due.  The event's arg says whether
\* connect() was called, ret what it returned.
WifiUpdate ==
    /\ wifiBegun
    /\ IF UpdatedStatus # "Connected" /\ ShouldAttemptReconnect(UpdatedStatus, now)
       THEN \E success \in BOOLEAN, down \in LinkDown :
               \E dur \in ConnectTimes(success) :
                  /\ Connect(now, success, dur, down)
                  /\ ev' = WifiEvent("wifiUpdate", TRUE, success)
                  /\ ObserveOthers(dur, "wifiUpdate")
                  /\ ObserveWifi(dur, TRUE, success,
                                 UpdateTrace \o Tail(ConnectTrace(UpdatedStatus, success)))
       ELSE /\ currentStatus' = UpdatedStatus
            /\ lastSuccessfulConnection' = UpdatedLastSuccessfulConnection(now)
            /\ ev' = WifiEvent("wifiUpdate", FALSE, FALSE)
            /\ ObserveOthers(0, "wifiUpdate")
            /\ ObserveWifi(0, FALSE, FALSE, UpdateTrace)
            /\ UNCHANGED <<now, lastConnectionAttempt, reconnectInterval,
                           connectionAttempts, linkStatus>>
    /\ UNCHANGED <<wifiBegun, advances, relayVars, sensorVars, timeVars, plantVars, bootVars>>

\* The bug of a forced reconnect that goes through the retry gate.
ForceReconnectDue_gated(t) == ShouldAttemptReconnect("Disconnected", t)

\* forceReconnect() calls connect() whatever the status and the time.
ForceReconnectDue(t) == TRUE

\* WiFiManager::forceReconnect(): WiFi.disconnect(), delay(100), the status
\* set to Disconnected, connect().  The event's arg says whether connect()
\* was called.
ForceReconnect ==
    /\ wifiBegun
    /\ LET t == UAdd(now, FORCE_RECONNECT_DELAY_MS) IN
       IF ForceReconnectDue(t)
       THEN \E success \in BOOLEAN, down \in LinkDown :
               \E dur \in ConnectTimes(success) :
                  /\ Connect(t, success, dur, down)
                  /\ ev' = WifiEvent("forceReconnect", TRUE, success)
                  /\ ObserveOthers(FORCE_RECONNECT_DELAY_MS + dur, "forceReconnect")
                  /\ ObserveWifi(dur, TRUE, success,
                                 <<currentStatus>> \o ConnectTrace("Disconnected", success))
       ELSE /\ currentStatus' = "Disconnected"
            /\ linkStatus' \in LinkDown
            /\ now' = t
            /\ ev' = WifiEvent("forceReconnect", FALSE, FALSE)
            /\ ObserveOthers(FORCE_RECONNECT_DELAY_MS, "forceReconnect")
            /\ ObserveWifi(FORCE_RECONNECT_DELAY_MS, FALSE, FALSE,
                           <<currentStatus, "Disconnected">>)
            /\ UNCHANGED <<lastConnectionAttempt, lastSuccessfulConnection,
                           reconnectInterval, connectionAttempts>>
    /\ UNCHANGED <<wifiBegun, advances, relayVars, sensorVars, timeVars, plantVars, bootVars>>

\* WiFiManager::isConnected()
IsConnected == currentStatus = "Connected" /\ linkStatus = "WL_CONNECTED"

\* The link changes on its own: it is lost, or the association WiFi.begin()
\* started completes after connect() stopped waiting for it.
LinkChange ==
    /\ wifiBegun
    /\ \E status \in LinkStatuses \ {linkStatus} : linkStatus' = status
    /\ ev' = WifiEvent("linkChange", FALSE, FALSE)
    /\ ObserveOthers(0, "linkChange")
    /\ ObserveWifi(0, FALSE, FALSE, <<currentStatus>>)
    /\ UNCHANGED <<now, advances, wifiBegun, currentStatus, lastConnectionAttempt,
                   lastSuccessfulConnection, reconnectInterval, connectionAttempts,
                   relayVars, sensorVars, timeVars, plantVars, bootVars>>

----------------------------------------------------------------------------
(* PlantController; t is the value millis() returns to the health checks *)

\* Milliseconds that may pass inside one tick between the health gate's
\* reading of millis() and setRelayState()'s own: executeDecision() prints
\* four strings to Serial before it calls the relay.
TickElapsed == {0, 1}

\* The bug of asking the relay before the sensor.
\* The bug of a health gate that also asks for the WiFi connection.
ValidateComponents_needsWifi(t) ==
    IF ~IsConnected THEN [ok |-> FALSE, reason |-> "NoValidTime"]
    ELSE IF ~HasValidTime THEN [ok |-> FALSE, reason |-> "NoValidTime"]
    ELSE IF ~IsSensorHealthy(t) THEN [ok |-> FALSE, reason |-> "SensorFailure"]
    ELSE IF ~CanSwitchRelay(t) THEN [ok |-> FALSE, reason |-> "RelayBusy"]
    ELSE [ok |-> TRUE, reason |-> "unset"]

ValidateComponents_relayFirst(t) ==
    IF ~HasValidTime THEN [ok |-> FALSE, reason |-> "NoValidTime"]
    ELSE IF ~CanSwitchRelay(t) THEN [ok |-> FALSE, reason |-> "RelayBusy"]
    ELSE IF ~IsSensorHealthy(t) THEN [ok |-> FALSE, reason |-> "SensorFailure"]
    ELSE [ok |-> TRUE, reason |-> "unset"]

\* validateComponents(reason): the value returned and the reason written
\* ("unset": the reference is not written).
ValidateComponents(t) ==
    IF ~HasValidTime THEN [ok |-> FALSE, reason |-> "NoValidTime"]
    ELSE IF ~IsSensorHealthy(t) THEN [ok |-> FALSE, reason |-> "SensorFailure"]
    ELSE IF ~CanSwitchRelay(t) THEN [ok |-> FALSE, reason |-> "RelayBusy"]
    ELSE [ok |-> TRUE, reason |-> "unset"]

IsWithinSchedule == IsTimeInRange(LIGHT_START_HOUR, LIGHT_END_HOUR)

IsAmbientLightLow == IsBelowThreshold(LIGHT_THRESHOLD_LUX)

\* The bug of deciding on the light level alone.
AnalyzeConditions_noSchedule(t) ==
    LET v == ValidateComponents(t) IN
    IF ~v.ok THEN [decision |-> "WaitForData", reason |-> v.reason]
    ELSE IF IsAmbientLightLow
    THEN [decision |-> IF currentState THEN "KeepCurrent" ELSE "TurnOn",
          reason |-> "InScheduleDark"]
    ELSE [decision |-> IF currentState THEN "TurnOff" ELSE "KeepCurrent",
          reason |-> "InScheduleBright"]

\* The bug of a tick that, once the relay was busy, keeps waiting instead of
\* deriving the decision again.
AnalyzeConditions_latched(t) ==
    LET v == ValidateComponents(t) IN
    IF ~v.ok THEN [decision |-> "WaitForData", reason |-> v.reason]
    ELSE IF lastReason = "RelayBusy"
    THEN [decision |-> "WaitForData", reason |-> "RelayBusy"]
    ELSE IF ~IsWithinSchedule
    THEN [decision |-> IF currentState THEN "TurnOff" ELSE "KeepCurrent",
          reason |-> "OutOfSchedule"]
    ELSE IF IsAmbientLightLow
    THEN [decision |-> IF currentState THEN "KeepCurrent" ELSE "TurnOn",
          reason |-> "InScheduleDark"]
    ELSE [decision |-> IF currentState THEN "TurnOff" ELSE "KeepCurrent",
          reason |-> "InScheduleBright"]

\* The bug of keeping the current state, instead of waiting, when a component
\* fails the health gate.
AnalyzeConditions_keepsOnFailure(t) ==
    LET v == ValidateComponents(t) IN
    IF ~v.ok THEN [decision |-> "KeepCurrent", reason |-> v.reason]
    ELSE IF ~IsWithinSchedule
    THEN [decision |-> IF currentState THEN "TurnOff" ELSE "KeepCurrent",
          reason |-> "OutOfSchedule"]
    ELSE IF IsAmbientLightLow
    THEN [decision |-> IF currentState THEN "KeepCurrent" ELSE "TurnOn",
          reason |-> "InScheduleDark"]
    ELSE [decision |-> IF currentState THEN "TurnOff" ELSE "KeepCurrent",
          reason |-> "InScheduleBright"]

\* analyzeConditions(reason): the decision returned and the reason written.
AnalyzeConditions(t) ==
    LET v == ValidateComponents(t) IN
    IF ~v.ok THEN [decision |-> "WaitForData", reason |-> v.reason]
    ELSE IF ~IsWithinSchedule
    THEN [decision |-> IF currentState THEN "TurnOff" ELSE "KeepCurrent",
          reason |-> "OutOfSchedule"]
    ELSE LET ambientLightLow == IsAmbientLightLow
             relayCurrentlyOn == currentState
         IN IF ambientLightLow
            THEN [decision |-> IF relayCurrentlyOn THEN "KeepCurrent" ELSE "TurnOn",
                  reason |-> "InScheduleDark"]
            ELSE [decision |-> IF relayCurrentlyOn THEN "TurnOff" ELSE "KeepCurrent",
                  reason |-> "InScheduleBright"]

NoRequest ==
    [requested |-> FALSE, arg |-> FALSE, changes |-> 0,
     relay |-> [ret |-> FALSE, state |-> currentState, time |-> lastSwitchTime,
                wrote |-> FALSE]]

\* The bug of counting a relay change whatever setRelayState() returned.
ExecuteDecision_countsBlocked(decision, t) ==
    IF decision \in {"TurnOn", "TurnOff"}
    THEN [requested |-> TRUE, arg |-> decision = "TurnOn", changes |-> 1,
          relay |-> SetRelayResult(decision = "TurnOn", t)]
    ELSE NoRequest

\* executeDecision(decision, reason) with millis() at t: the request it makes
\* of the relay, what the relay answers, and what it adds to relayChanges.
\* The bug of not counting the changes the relay accepted.
ExecuteDecision_uncounted(decision, t) ==
    IF decision = "TurnOn"
    THEN [requested |-> TRUE, arg |-> TRUE, relay |-> SetRelayResult(TRUE, t),
          changes |-> 0]
    ELSE IF decision = "TurnOff"
    THEN [requested |-> TRUE, arg |-> FALSE, relay |-> SetRelayResult(FALSE, t),
          changes |-> 0]
    ELSE NoRequest

ExecuteDecision(decision, t) ==
    IF decision = "TurnOn"
    THEN LET r == SetRelayResult(TRUE, t) IN
         [requested |-> TRUE, arg |-> TRUE, relay |-> r,
          changes |-> IF r.ret THEN 1 ELSE 0]
    ELSE IF decision = "TurnOff"
    THEN LET r == SetRelayResult(FALSE, t) IN
         [requested |-> TRUE, arg |-> FALSE, relay |-> r,
          changes |-> IF r.ret THEN 1 ELSE 0]
    ELSE NoRequest

\* What a tick leaves behind: the relay as executeDecision() left it after e
\* milliseconds, the decision record stamped tDecision, both counters.
Evaluated(name, a, x, e, tDecision) ==
    /\ decisionCount < MaxDecisions
    /\ now' = UAdd(now, e)
    /\ currentState' = x.relay.state
    /\ lastSwitchTime' = x.relay.time
    /\ relayChanges' = relayChanges + x.changes
    /\ lastDecision' = a.decision
    /\ lastReason' = a.reason
    /\ lastDecisionTime' = tDecision
    /\ decisionCount' = decisionCount + 1
    /\ ObserveRun(e, x.relay.wrote, x.relay.state # currentState, "setRelayState",
                  name = "update")
    /\ ev' = TickEvent(name, x.arg, x.relay.ret, x.requested,
                       HasValidTime, IsSensorHealthy(now), CanSwitchRelay(now))

\* The bug of running one millisecond before the poll interval is over.
UpdateDue_early(currentTime) ==
    ~(USub(currentTime, lastUpdateTime) < CHECK_INTERVAL_MS - 1)

\* update()'s interval check: not "currentTime - lastUpdateTime < updateInterval".
UpdateDue(currentTime) ==
    ~(USub(currentTime, lastUpdateTime) < CHECK_INTERVAL_MS)

\* The bug of counting a decision although automatic control is disabled.
Update_countsDisabled ==
    /\ timeBegun
    /\ IF USub(now, lastUpdateTime) < CHECK_INTERVAL_MS
       THEN /\ ev' = Event("update", FALSE, FALSE, FALSE)
            /\ Observe(0, FALSE, FALSE, "update")
            /\ UNCHANGED <<now, currentState, lastSwitchTime, plantVars, bootVars>>
       ELSE /\ decisionCount < MaxDecisions
            /\ lastUpdateTime' = now
            /\ decisionCount' = decisionCount + 1
            /\ ev' = Event("update", FALSE, FALSE, FALSE)
            /\ ObserveRun(0, FALSE, FALSE, "update", TRUE)
            /\ UNCHANGED <<now, currentState, lastSwitchTime, lastDecision,
                           lastReason, lastDecisionTime, relayChanges,
                           automaticControlEnabled>>
    /\ UNCHANGED <<advances, wifiVars, relayBegun, sensorVars, timeVars, bootVars>>

\* The bug of evaluating although automatic control is disabled.
Update_ignoresDisabled ==
    /\ timeBegun
    /\ IF ~UpdateDue(now)
       THEN /\ ev' = Event("update", FALSE, FALSE, FALSE)
            /\ Observe(0, FALSE, FALSE, "update")
            /\ UNCHANGED <<now, currentState, lastSwitchTime, plantVars, bootVars>>
       ELSE LET a == AnalyzeConditions(now) IN
            \E e \in TickElapsed :
               /\ a.decision \in {"KeepCurrent", "WaitForData"} => e = 0
               /\ LET x == IF a.decision # "KeepCurrent" /\ a.decision # "WaitForData"
                           THEN ExecuteDecision(a.decision, UAdd(now, e))
                           ELSE NoRequest
                  IN Evaluated("update", a, x, e, now)
               /\ lastUpdateTime' = now
               /\ UNCHANGED automaticControlEnabled
    /\ UNCHANGED <<advances, wifiVars, relayBegun, sensorVars, timeVars, bootVars>>

\* update(): e milliseconds pass between the health gate and the request,
\* when there is one.
Update ==
    /\ timeBegun
    /\ IF ~UpdateDue(now)
       THEN /\ ev' = Event("update", FALSE, FALSE, FALSE)
            /\ Observe(0, FALSE, FALSE, "update")
            /\ UNCHANGED <<now, currentState, lastSwitchTime, plantVars, bootVars>>
       ELSE IF ~automaticControlEnabled
       THEN /\ lastUpdateTime' = now
            /\ ev' = Event("update", FALSE, FALSE, FALSE)
            /\ ObserveRun(0, FALSE, FALSE, "update", TRUE)
            /\ UNCHANGED <<now, currentState, lastSwitchTime, lastDecision,
                           lastReason, lastDecisionTime, decisionCount,
                           relayChanges, automaticControlEnabled>>
       ELSE LET a == AnalyzeConditions(now) IN
            \E e \in TickElapsed :
               /\ a.decision \in {"KeepCurrent", "WaitForData"} => e = 0
               /\ LET x == IF a.decision # "KeepCurrent" /\ a.decision # "WaitForData"
                           THEN ExecuteDecision(a.decision, UAdd(now, e))
                           ELSE NoRequest
                  IN Evaluated("update", a, x, e, now)
               /\ lastUpdateTime' = now
               /\ UNCHANGED automaticControlEnabled
    /\ UNCHANGED <<advances, wifiVars, relayBegun, sensorVars, timeVars, bootVars>>

\* forceUpdate(); begin() is this call.
ForceUpdate ==
    /\ timeBegun
    /\ LET a == AnalyzeConditions(now) IN
       \E e \in TickElapsed :
          /\ a.decision \in {"KeepCurrent", "WaitForData"} => e = 0
          /\ Evaluated("forceUpdate", a, ExecuteDecision(a.decision, UAdd(now, e)),
                       e, UAdd(now, e))
    /\ UNCHANGED <<lastUpdateTime, automaticControlEnabled>>
    /\ UNCHANGED <<advances, wifiVars, relayBegun, sensorVars, timeVars, bootVars>>

\* setAutomaticControl(enabled): disabling asks the relay to switch off and
\* does not look at the answer.
SetAutomaticControl(enabled) ==
    LET r == IF ~enabled THEN SetRelayResult(FALSE, now)
             ELSE NoRequest.relay
    IN
    /\ timeBegun
    /\ automaticControlEnabled' = enabled
    /\ currentState' = r.state
    /\ lastSwitchTime' = r.time
    /\ Observe(0, r.wrote, r.state # currentState, "setRelayState")
    /\ ev' = Event("setAutomaticControl", enabled, r.ret, ~enabled)
    /\ UNCHANGED <<lastDecision, lastReason, lastDecisionTime, lastUpdateTime,
                   decisionCount, relayChanges>>
    /\ UNCHANGED <<now, advances, wifiVars, relayBegun, sensorVars, timeVars, bootVars>>

----------------------------------------------------------------------------
(* Specifications *)

\* One dwell interval (which is two poll intervals and the sensor's recency
\* window), or one millisecond short of a full period of the counter.
Deltas == {MIN_SWITCH_INTERVAL_MS, ULONG_RANGE - 1}

Advance ==
    /\ timeBegun
    /\ advances < MaxAdvances
    /\ advances' = advances + 1
    /\ \E d \in Deltas :
          /\ now' = UAdd(now, d)
          /\ Observe(d, FALSE, FALSE, "advance")
    /\ ev' = [NoEvent EXCEPT !.op = "advance"]
    /\ UNCHANGED <<relayVars, sensorVars, timeVars, plantVars, wifiVars, bootVars>>

\* The state the constructors leave (relaycontroller.cpp:12-20,
\* lightsensor.cpp:12-30, timemanager.cpp:12-23, plantcontroller.cpp:13-32),
\* at boot, at any hour of the day.
Init ==
    /\ now = 0
    /\ advances = 0
    /\ relayBegun = FALSE
    /\ currentState = FALSE
    /\ lastSwitchTime = 0
    /\ sensorInitialized = FALSE
    /\ readingBuffer = EmptyBuffer
    /\ bufferIndex = 0
    /\ bufferFull = FALSE
    /\ currentAverageLux = [num |-> 0, den |-> 1]
    /\ lastRawLux = 0
    /\ readingCount = 0
    /\ lastReadingTime = 0
    /\ timeBegun = FALSE
    /\ timeValid = FALSE
    /\ lastSyncAttempt = 0
    /\ lastSuccessfulSync = 0
    /\ syncCount = 0
    /\ ntpTimeSet = FALSE
    /\ ntpHours = LIGHT_END_HOUR
    /\ lastDecision = "WaitForData"
    /\ lastReason = "NoValidTime"
    /\ lastDecisionTime = 0
    /\ lastUpdateTime = 0
    /\ decisionCount = 0
    /\ relayChanges = 0
    /\ automaticControlEnabled = TRUE
    /\ sinceSwitch = 0
    /\ sinceChange = -1
    /\ timerBy = "construct"
    /\ sinceUpdate = -1
    /\ accepted = <<>>
    /\ sinceReading = -1
    /\ sinceAttempt = -1
    /\ wifiBegun = FALSE
    /\ currentStatus = "Disconnected"
    /\ lastConnectionAttempt = 0
    /\ lastSuccessfulConnection = 0
    /\ reconnectInterval = BASE_RECONNECT_INTERVAL_MS
    /\ connectionAttempts = 0
    /\ linkStatus = "WL_DISCONNECTED"
    /\ pc = "setup"
    /\ wifiStartTime = 0
    /\ timeStartTime = 0
    /\ sinceConnect = -1
    /\ failures = 0
    /\ statusTrace = <<"Disconnected">>
    /\ wrapped = FALSE
    /\ sinceSync = -1
    /\ ev = NoEvent

\* The relay on its own: its operations at arbitrary times.
NextRelay ==
    \/ AdvanceRelay
    \/ RelayBegin
    \/ \E s \in BOOLEAN : SetRelayState(s)
    \/ EmergencyStop

SpecRelay == Init /\ [][NextRelay]_vars

\* Time passing around the poll interval, and once around the counter.
DeltasPoll == {1, CHECK_INTERVAL_MS - 1, CHECK_INTERVAL_MS, ULONG_RANGE - 1}

AdvancePoll ==
    /\ timeBegun
    /\ advances < MaxAdvancesPoll
    /\ advances' = advances + 1
    /\ \E d \in DeltasPoll :
          /\ now' = UAdd(now, d)
          /\ Observe(d, FALSE, FALSE, "advance")
    /\ ev' = [NoEvent EXCEPT !.op = "advance"]
    /\ UNCHANGED <<relayVars, sensorVars, timeVars, plantVars, wifiVars, bootVars>>

\* What readLux() returns in SpecAverage: NaN, and numbers on both sides of
\* the two limits of a valid reading.
SensorSamples ==
    {[nan |-> TRUE, v |-> 0]} \cup
    {[nan |-> FALSE, v |-> x] : x \in {-1, 0, 50, MAX_VALID_LUX, MAX_VALID_LUX + 1}}

AdvanceAverage ==
    /\ sensorInitialized
    /\ advances < MaxAdvancesAverage
    /\ advances' = advances + 1
    /\ now' = UAdd(now, 1)
    /\ Observe(1, FALSE, FALSE, "advance")
    /\ ev' = [NoEvent EXCEPT !.op = "advance"]
    /\ UNCHANGED <<relayVars, sensorVars, timeVars, plantVars, wifiVars, bootVars>>

\* The light sensor's averager: readings of every kind, more of them than the
\* buffer holds, and resets.
NextAverage ==
    \/ AdvanceAverage
    \/ RelayBegin
    \/ LightBegin
    \/ \E r \in SensorSamples : UpdateReadingUpTo(r, MaxReadingsAverage)
    \/ ResetAveragingCall

SpecAverage == Init /\ [][NextAverage]_vars

\* Time passes for the WiFi manager: one millisecond, up to one millisecond
\* before the next retry is due, or all but one millisecond of a period of
\* the counter.
DeltasWifi ==
    {1, ULONG_RANGE - 1}
      \cup (IF sinceConnect >= 0 /\ sinceConnect < reconnectInterval - 1
            THEN {reconnectInterval - 1 - sinceConnect} ELSE {})

AdvanceWifi ==
    /\ advances < MaxAdvancesWifi
    /\ advances' = advances + 1
    /\ \E d \in DeltasWifi :
          /\ now' = UAdd(now, d)
          /\ Observe(d, FALSE, FALSE, "advance")
    /\ ev' = [NoEvent EXCEPT !.op = "advance"]
    /\ UNCHANGED <<relayVars, sensorVars, timeVars, plantVars, wifiVars, bootVars>>

\* The WiFi manager: begin(), then update(), connect() and forceReconnect()
\* at arbitrary times, each attempt succeeding or failing, while the link
\* comes and goes.
NextWifi ==
    \/ AdvanceWifi
    \/ WifiBegin
    \/ WifiUpdate
    \/ WifiConnect
    \/ ForceReconnect
    \/ LinkChange

SpecWifi == Init /\ [][NextWifi]_vars

\* Time passing around the retry spacing and the sync interval, and once
\* around the counter.
DeltasTime ==
    {1, MIN_SYNC_INTERVAL_MS - 1, MIN_SYNC_INTERVAL_MS, NTP_UPDATE_INTERVAL_MS - 1,
     ULONG_RANGE - 1}

AdvanceTime ==
    /\ advances < MaxAdvancesTime
    /\ advances' = advances + 1
    /\ \E d \in DeltasTime :
          /\ now' = UAdd(now, d)
          /\ Observe(d, FALSE, FALSE, "advance")
    /\ ev' = [NoEvent EXCEPT !.op = "advance"]
    /\ UNCHANGED <<relayVars, sensorVars, timeVars, plantVars, wifiVars, bootVars>>

\* The time manager: its bring-up some time after boot, then update() and
\* syncTime() at arbitrary times, each sync succeeding or failing.
NextTime ==
    \/ AdvanceTime
    \/ RelayBegin
    \/ LightBegin
    \/ TimeBegin
    \/ TimeUpdate
    \/ SyncTimeCall

SpecTime == Init /\ [][NextTime]_vars

\* The hours of the day.
DayHours == 0..23

\* The hours the windows of the calls of isTimeInRange() start and end at.
WindowHours == {0, 6, 8, 22, 23}

\* The schedule query at every hour of the day, with and without a valid
\* time.
NextRange ==
    \/ RelayBegin
    \/ LightBegin
    \/ TimeBegin
    \/ NtpClockIn(DayHours)
    \/ \E startHour \in WindowHours, endHour \in WindowHours :
          IsTimeInRangeCall(startHour, endHour)

SpecRange == Init /\ [][NextRange]_vars

\* The decision engine's operations at times around its poll interval, after
\* the bring-up of main.cpp.
NextPoll ==
    \/ AdvancePoll
    \/ RelayBegin
    \/ LightBegin
    \/ TimeBegin
    \/ Update
    \/ ForceUpdate
    \/ \E enabled \in BOOLEAN : SetAutomaticControl(enabled)

SpecPoll == Init /\ [][NextPoll]_vars

\* Time passing from one poll of the engine to the next.
DeltasHeal == {CHECK_INTERVAL_MS}

AdvanceHeal ==
    /\ timeBegun
    /\ advances < MaxAdvancesHeal
    /\ advances' = advances + 1
    /\ \E d \in DeltasHeal :
          /\ now' = UAdd(now, d)
          /\ Observe(d, FALSE, FALSE, "advance")
    /\ ev' = [NoEvent EXCEPT !.op = "advance"]
    /\ UNCHANGED <<relayVars, sensorVars, timeVars, plantVars, wifiVars, bootVars>>

\* The engine polled by loop(): the bring-up, then sensor readings, the hour
\* of the day and automatic control changing at arbitrary times, while
\* loop() keeps calling update() (main.cpp:100) and time keeps passing.
NextHeal ==
    \/ AdvanceHeal
    \/ RelayBegin
    \/ LightBegin
    \/ TimeBegin
    \/ NtpClock
    \/ \E r \in ReadLuxOutcomes : UpdateReading(r)
    \/ Update
    \/ \E enabled \in BOOLEAN : SetAutomaticControl(enabled)

SpecHeal ==
    Init /\ [][NextHeal]_vars /\ WF_vars(Update) /\ WF_vars(AdvanceHeal)

\* The sensor reads a dark room or a bright one.
LoopSamples == {[nan |-> FALSE, v |-> x] : x \in {50, 150}}

\* timeManager->update() as loop() calls it: only while the WiFi manager
\* says it is connected (main.cpp:87-89).
LoopTimeUpdate == IsConnected /\ TimeUpdate

\* setup() and loop(): the bring-up in the order of main.cpp:112-157 (WiFi,
\* relay, sensor, and the time manager once WiFi is connected), then the
\* WiFi manager's update() while the link comes and goes, the time
\* manager's update() while WiFi is connected, sensor readings and the
\* engine's update().
NextLoop ==
    \/ AdvanceHeal
    \/ WifiBegin
    \/ wifiBegun /\ RelayBegin
    \/ LightBegin
    \/ IsConnected /\ TimeBegin
    \/ NtpClock
    \/ LinkChange
    \/ WifiUpdate /\ connectionAttempts' <= MaxAttemptsLoop
    \/ LoopTimeUpdate
    \/ \E r \in LoopSamples : UpdateReading(r)
    \/ Update

SpecLoop == Init /\ [][NextLoop]_vars

\* The engine beside a sensor whose averager is reset from outside: the
\* bring-up, then readings, resetAveraging(), the hour of the day and the
\* engine's ticks at arbitrary times, one poll interval apart or less.
NextReset ==
    \/ AdvanceHeal
    \/ RelayBegin
    \/ LightBegin
    \/ TimeBegin
    \/ NtpClock
    \/ \E r \in LoopSamples : UpdateReading(r)
    \/ ResetAveragingCall
    \/ Update
    \/ ForceUpdate

SpecReset == Init /\ [][NextReset]_vars

\* The decision engine and what it reads: the bring-up in the order of
\* main.cpp at boot, then sensor readings, the hour of the day and the
\* engine's operations at arbitrary times.
Next ==
    \/ Advance
    \/ RelayBegin
    \/ LightBegin
    \/ TimeBegin
    \/ NtpClock
    \/ \E r \in ReadLuxOutcomes : UpdateReading(r)
    \/ Update
    \/ ForceUpdate
    \/ \E enabled \in BOOLEAN : SetAutomaticControl(enabled)

Spec == Init /\ [][Next]_vars

----------------------------------------------------------------------------
(* Claims about the relay, checked under SpecRelay *)

\* C1: any two changes of the relay state are at least the minimum dwell
\* interval apart in real time, unless the later one is made by
\* emergencyStop(): a step that changes currentState and is not an emergency
\* stop finds no earlier change, or one that is a full dwell interval old.
C1_ChangesDwellApart ==
    [][ (currentState' # currentState /\ ev'.op # "emergencyStop")
          => /\ ev'.op = "setRelayState"
             /\ (sinceChange < 0 \/ sinceChange >= MIN_SWITCH_INTERVAL_MS) ]_vars

\* C1 witness: a request turned the relay off exactly one dwell interval
\* after an earlier request had turned it on.
C1_Witness ==
    /\ ev.op = "setRelayState" /\ ev.ret
    /\ ev.prev = TRUE /\ ev.arg = FALSE /\ currentState = FALSE
    /\ ev.since = MIN_SWITCH_INTERVAL_MS

\* C2: a request for the other state made less than the minimum dwell after
\* the timer was written fails and leaves state and timer alone; made at the
\* dwell or later (within one period of the counter) it succeeds, changes the
\* state and restarts the timer.
C2_DwellBoundary ==
    [][ (ev'.op = "setRelayState" /\ ev'.arg # currentState /\ sinceSwitch < ULONG_RANGE)
          => IF sinceSwitch < MIN_SWITCH_INTERVAL_MS
             THEN /\ ~ev'.ret
                  /\ currentState' = currentState
                  /\ lastSwitchTime' = lastSwitchTime
             ELSE /\ ev'.ret
                  /\ currentState' = ev'.arg
                  /\ lastSwitchTime' = now ]_vars

\* C2 witness: a differing request was rejected 59999 ms after the timer
\* was written.
C2_Witness ==
    /\ ev.op = "setRelayState" /\ ev.arg # ev.prev /\ ~ev.ret
    /\ ev.since = MIN_SWITCH_INTERVAL_MS - 1
    /\ currentState = ev.prev /\ lastSwitchTime = ev.last

\* C3: a request for the state the relay is already in succeeds and changes
\* neither the state nor the timer, so the gate answers every later request
\* as it would have without it.
C3_Idempotent ==
    [][ (ev'.op = "setRelayState" /\ ev'.arg = currentState)
          => /\ ev'.ret
             /\ currentState' = currentState
             /\ lastSwitchTime' = lastSwitchTime
             /\ \A d \in DeltasRelay :
                   CanSwitchRelay(UAdd(now, d))' = CanSwitchRelay(UAdd(now, d)) ]_vars

\* C3 witness: the relay is on, inside its dwell window, and was asked to
\* be on.
C3_Witness ==
    /\ ev.op = "setRelayState" /\ ev.arg = TRUE /\ ev.prev = TRUE /\ ev.ret
    /\ ev.since > 0 /\ ev.since < MIN_SWITCH_INTERVAL_MS

\* C4: emergencyStop() leaves the relay off and the timer at the time of the
\* call whatever it found, and while less than the dwell has passed since
\* an emergency stop wrote the timer the relay is off, the gate is closed
\* and a request to turn on fails.
C4_EmergencyStop ==
    [][ /\ ev'.op = "emergencyStop"
           => (currentState' = FALSE /\ lastSwitchTime' = now /\ ~CanSwitchRelay(now)')
        /\ (timerBy = "emergencyStop" /\ sinceSwitch < MIN_SWITCH_INTERVAL_MS)
           => /\ currentState = FALSE
              /\ ~CanSwitchRelay(now)
              /\ (ev'.op = "setRelayState" /\ ev'.arg = TRUE)
                 => (~ev'.ret /\ currentState' = FALSE) ]_vars

\* C4 witness: a request to turn on was rejected after an emergency stop
\* that had switched the relay off inside its dwell window.
C4_Witness ==
    /\ ev.op = "setRelayState" /\ ev.arg = TRUE /\ ~ev.ret
    /\ timerBy = "emergencyStop"
    /\ sinceChange = sinceSwitch /\ sinceSwitch = MIN_SWITCH_INTERVAL_MS - 1

\* C5: while less than one period of the counter has passed since the timer
\* was written, getTimeSinceLastSwitch() is the real time passed, also when
\* the counter wrapped in between, and the gate is open iff that is at least
\* the minimum dwell.
C5_WrapSafeElapsed ==
    sinceSwitch < ULONG_RANGE
      => /\ GetTimeSinceLastSwitch(now) = sinceSwitch
         /\ CanSwitchRelay(now) <=> (sinceSwitch >= MIN_SWITCH_INTERVAL_MS)

\* C5 witness: a change was accepted at a counter value below the one the
\* previous change was recorded at: the counter wrapped between the two.
C5_Witness ==
    /\ ev.op = "setRelayState" /\ ev.arg # ev.prev /\ ev.ret
    /\ timerBy = "setRelayState"
    /\ now < ev.last
    /\ ev.since = MIN_SWITCH_INTERVAL_MS

----------------------------------------------------------------------------
(* Claims about the decision engine, checked under Spec *)

\* This step is a tick that evaluates a decision: a forceUpdate(), or an
\* update() made with automatic control enabled at least one poll interval
\* after the last one that passed the interval check.
EvaluatedTick ==
    \/ ev'.op = "forceUpdate"
    \/ /\ ev'.op = "update"
       /\ USub(now, lastUpdateTime) >= CHECK_INTERVAL_MS
       /\ automaticControlEnabled

\* The tick records WaitForData with this reason and leaves the relay alone.
Waits(reason) ==
    /\ lastDecision' = "WaitForData"
    /\ lastReason' = reason
    /\ ~ev'.requested
    /\ currentState' = currentState
    /\ lastSwitchTime' = lastSwitchTime
    /\ relayChanges' = relayChanges

TimeIsValid == timeValid /\ ntpTimeSet

InWindow == ntpHours >= LIGHT_START_HOUR /\ ntpHours < LIGHT_END_HOUR

Dark == currentAverageLux.num < LIGHT_THRESHOLD_LUX * currentAverageLux.den

\* The decision and reason section 4.5 prescribes once the health gate passed.
Prescribed ==
    IF ~InWindow
    THEN <<IF currentState THEN "TurnOff" ELSE "KeepCurrent", "OutOfSchedule">>
    ELSE IF Dark
    THEN <<IF currentState THEN "KeepCurrent" ELSE "TurnOn", "InScheduleDark">>
    ELSE <<IF currentState THEN "TurnOff" ELSE "KeepCurrent", "InScheduleBright">>

\* C6: an evaluated tick checks time validity, then sensor health, then the
\* relay's dwell gate; the first check that fails decides the recorded
\* reason, the decision is WaitForData, no request is made of the relay and
\* the relay is left as it was.
C6_HealthGateOrder ==
    [][ EvaluatedTick
          => IF ~TimeIsValid THEN Waits("NoValidTime")
             ELSE IF ~IsSensorHealthy(now) THEN Waits("SensorFailure")
             ELSE IF ~CanSwitchRelay(now) THEN Waits("RelayBusy")
             ELSE lastDecision' # "WaitForData" ]_vars

\* C6 witness: a tick found the time valid, the sensor stale and the relay
\* inside its dwell window, and recorded WaitForData/SensorFailure.
C6_Witness ==
    /\ ev.evaluated /\ ev.valid /\ ~ev.healthy /\ ~ev.open
    /\ lastDecision = "WaitForData" /\ lastReason = "SensorFailure"

\* C7: a tick of update() or forceUpdate() switches the relay from off to on
\* only when the time is valid and the hour is inside the schedule window.
C7_NeverOnOutsideSchedule ==
    [][ (ev'.op \in {"update", "forceUpdate"} /\ ~currentState /\ currentState')
          => (TimeIsValid /\ InWindow) ]_vars

\* C7 witness: a tick switched the relay on.
C7_Witness ==
    /\ ev.evaluated /\ ev.requested /\ ev.arg /\ ev.ret
    /\ ~ev.prev /\ currentState

\* C8: when the health gate passes, the recorded decision and reason are the
\* ones prescribed for (in window, dark, relay on), dark meaning an average
\* strictly below the threshold.
C8_DecisionTable ==
    [][ (EvaluatedTick /\ TimeIsValid /\ IsSensorHealthy(now) /\ CanSwitchRelay(now))
          => <<lastDecision', lastReason'>> = Prescribed ]_vars

\* C8 witness: with the average exactly at the threshold and the relay on, a
\* tick inside the window decided TurnOff/InScheduleBright.
C8_Witness ==
    /\ ev.evaluated /\ ev.valid /\ ev.healthy /\ ev.open /\ ev.prev
    /\ currentAverageLux.num = LIGHT_THRESHOLD_LUX * currentAverageLux.den
    /\ lastDecision = "TurnOff" /\ lastReason = "InScheduleBright"

\* C9: when the relay rejects the request of a tick, the relay stays as it
\* was, the tick's TurnOn or TurnOff and its reason are recorded all the
\* same, decisionCount goes up by one and relayChanges does not move.
C9_BlockedRequestStillRecorded ==
    [][ (EvaluatedTick /\ ev'.requested /\ ~ev'.ret)
          => /\ currentState' = currentState
             /\ lastSwitchTime' = lastSwitchTime
             /\ lastDecision' = (IF ev'.arg THEN "TurnOn" ELSE "TurnOff")
             /\ <<lastDecision', lastReason'>> = Prescribed
             /\ decisionCount' = decisionCount + 1
             /\ relayChanges' = relayChanges ]_vars

\* C9 witness: a tick decided TurnOn/InScheduleDark, the relay rejected the
\* request and stayed off.
C9_Witness ==
    /\ ev.evaluated /\ ev.requested /\ ev.arg /\ ~ev.ret
    /\ ~ev.prev /\ ~currentState
    /\ lastDecision = "TurnOn" /\ lastReason = "InScheduleDark"

----------------------------------------------------------------------------
(* Claims about the engine's operations, checked under SpecPoll *)

ProgramVars == <<now, relayVars, sensorVars, timeVars, plantVars>>

\* C11: update() evaluates a decision only when at least the poll interval
\* has passed, in real time, since update() last passed its interval check,
\* and an update() called earlier than that changes nothing.
C11_PollInterval ==
    [][ ev'.op = "update"
          => /\ ev'.evaluated
                  => (sinceUpdate < 0 \/ sinceUpdate >= CHECK_INTERVAL_MS)
             /\ (sinceUpdate >= 0 /\ sinceUpdate < CHECK_INTERVAL_MS)
                  => UNCHANGED ProgramVars ]_vars

\* C11 witness: update() evaluated a decision, and called again one
\* millisecond before the poll interval was over it did nothing.
C11_Witness ==
    /\ ev.op = "update" /\ ~ev.evaluated
    /\ automaticControlEnabled
    /\ decisionCount >= 1
    /\ sinceUpdate = CHECK_INTERVAL_MS - 1

\* The relay, the decision record and the counters as a tick leaves them
\* that decided a and made the request x, with what the request returned.
TickOutcome(a, x) ==
    /\ currentState' = x.relay.state
    /\ lastSwitchTime' = x.relay.time
    /\ lastDecision' = a.decision
    /\ lastReason' = a.reason
    /\ decisionCount' = decisionCount + 1
    /\ relayChanges' = relayChanges + x.changes
    /\ ev'.requested = x.requested
    /\ ev'.arg = x.arg
    /\ ev'.ret = x.relay.ret

\* What update() does to the relay, the decision record and the counters
\* when the poll interval is over and automatic control is enabled
\* (plantcontroller.cpp:75-88), the request being made at now'.
UpdateEvaluates ==
    LET a == AnalyzeConditions(now) IN
    TickOutcome(a, IF a.decision # "KeepCurrent" /\ a.decision # "WaitForData"
                   THEN ExecuteDecision(a.decision, now')
                   ELSE NoRequest)

\* What update() does to them when the poll interval is over
\* (plantcontroller.cpp:68-88).
UpdateWould ==
    IF ~automaticControlEnabled
    THEN /\ UNCHANGED <<currentState, lastSwitchTime, lastDecision, lastReason,
                        decisionCount, relayChanges>>
         /\ ~ev'.requested
    ELSE UpdateEvaluates

\* C12: started from the same state, forceUpdate() records the same decision
\* and reason, makes the same request of the relay and advances the same
\* counters as update() would with the poll interval over.
C12_ForceUpdateAsUpdate ==
    [][ ev'.op = "forceUpdate" => UpdateWould ]_vars

\* C12, the part that holds: forceUpdate() does what update() does when
\* update() evaluates, however recently update() ran.
C12_ForceUpdateAsEvaluatedUpdate ==
    [][ ev'.op = "forceUpdate" => UpdateEvaluates ]_vars

\* C12 witness: with automatic control disabled and the relay off,
\* forceUpdate() switched the relay on.
C12_Witness ==
    /\ ev.op = "forceUpdate" /\ ~automaticControlEnabled
    /\ ev.requested /\ ev.arg /\ ev.ret /\ ~ev.prev /\ currentState
    /\ lastDecision = "TurnOn"

\* C13: after setAutomaticControl(false) the relay is off and automatic
\* control is disabled, whatever the relay state and the time since its last
\* change were before the call.
C13_DisableForcesOff ==
    [][ (ev'.op = "setAutomaticControl" /\ ~ev'.arg)
          => (~currentState' /\ ~automaticControlEnabled') ]_vars

\* C13 witness: setAutomaticControl(false) was called with the relay on and
\* inside its dwell window; the relay rejected the request and is still on,
\* with automatic control disabled.
C13_Witness ==
    /\ ev.op = "setAutomaticControl" /\ ~ev.arg
    /\ ev.requested /\ ~ev.ret /\ ev.prev /\ ev.since < MIN_SWITCH_INTERVAL_MS
    /\ currentState /\ ~automaticControlEnabled

----------------------------------------------------------------------------
(* Claims about the light sensor's averager, checked under SpecAverage *)

RECURSIVE SumLast(_, _)
\* The sum of the last n elements of the sequence q.
SumLast(q, n) ==
    IF n = 0 THEN 0 ELSE q[Len(q)] + SumLast(SubSeq(q, 1, Len(q) - 1), n - 1)

\* C14: after k >= 1 samples accepted since the last reset, the average is
\* the mean of all k samples if k < SENSOR_SAMPLES and the mean of the last
\* SENSOR_SAMPLES samples otherwise.
C14_AverageOfLastSamples ==
    Len(accepted) >= 1
      => LET n == Min(Len(accepted), SENSOR_SAMPLES) IN
         /\ currentAverageLux.den > 0
         /\ currentAverageLux.num * n = SumLast(accepted, n) * currentAverageLux.den

\* C14 witness: seven samples were accepted, the first two being 120000 and
\* the last five 50, and the average is 50.
C14_Witness ==
    /\ Len(accepted) = SENSOR_SAMPLES + 2
    /\ accepted[1] = MAX_VALID_LUX /\ accepted[2] = MAX_VALID_LUX
    /\ \A i \in 3..Len(accepted) : accepted[i] = 50
    /\ currentAverageLux.num = 50 * currentAverageLux.den

\* C15: a sample that is NaN, negative or greater than 120000 makes
\* updateReading() return failure and leave the average, the buffer, the
\* cursor, the full flag, the last raw value, the reading count and the
\* timestamp of the last reading as they were.
C15_InvalidSampleRejected ==
    [][ (/\ ev'.op = "updateReading" /\ ev'.sample # NoSample
         /\ (ev'.sample.nan \/ ev'.sample.v < 0 \/ ev'.sample.v > 120000))
          => /\ ~ev'.ret
             /\ UNCHANGED <<currentAverageLux, readingBuffer, bufferIndex, bufferFull,
                            lastRawLux, readingCount, lastReadingTime>> ]_vars

\* C15 witness: a reading of 120001 was rejected after samples had been
\* accepted and time had passed since the last of them.
C15_Witness ==
    /\ ev.op = "updateReading" /\ ~ev.ret
    /\ ~ev.sample.nan /\ ev.sample.v = MAX_VALID_LUX + 1
    /\ Len(accepted) >= 1 /\ readingCount >= 1
    /\ now # lastReadingTime

----------------------------------------------------------------------------
(* Claims about the sensor's health and the time manager, checked under Spec *)

\* C16: isSensorHealthy() is true only if a sample was accepted and the last
\* accepted sample is less than 60000 ms of real time old.
C16_HealthyOnlyIfFresh ==
    IsSensorHealthy(now) => (sinceReading >= 0 /\ sinceReading < SENSOR_RECENT_MS)

\* C16 witness: isSensorHealthy() answers true although the last accepted
\* sample is at least 60000 ms old.
C16_Witness ==
    /\ IsSensorHealthy(now)
    /\ readingCount >= 1 /\ sinceReading >= SENSOR_RECENT_MS

\* C16, second witness: isSensorHealthy() answers true to the decision engine
\* although no sample was ever accepted.
C16_WitnessNoSample ==
    /\ ev.evaluated /\ ev.healthy
    /\ readingCount = 0 /\ sinceReading < 0

----------------------------------------------------------------------------
(* Claims about the schedule query, checked under SpecRange *)

\* Hour h is inside the window from startHour to endHour.
HourInWindow(startHour, endHour, h) ==
    \/ startHour <= endHour /\ startHour <= h /\ h < endHour
    \/ startHour > endHour /\ (h >= startHour \/ h < endHour)

\* C17: for every window of hours 0..23, isTimeInRange(start, end) is true
\* iff the time is valid and the current hour is inside the window, a window
\* with start > end crossing midnight; (22, 6) holds exactly the hours 22, 23
\* and 0..5; and a call returns that value.
C17_TimeInRange ==
    /\ \A startHour \in DayHours, endHour \in DayHours :
          IsTimeInRange(startHour, endHour)
            <=> (/\ timeValid /\ ntpTimeSet
                 /\ HourInWindow(startHour, endHour, ntpHours))
    /\ (timeValid /\ ntpTimeSet)
          => (IsTimeInRange(22, 6) <=> ntpHours \in {22, 23, 0, 1, 2, 3, 4, 5})
    /\ ev.op = "isTimeInRange"
          => (ev.ret <=> (/\ timeValid /\ ntpTimeSet
                          /\ HourInWindow(ev.window[1], ev.window[2], ntpHours)))

\* C17 witness: with a valid time at 23 o'clock, isTimeInRange(22, 6)
\* returned true.
C17_Witness ==
    /\ ev.op = "isTimeInRange" /\ ev.window = <<22, 6>> /\ ev.ret
    /\ timeValid /\ ntpTimeSet /\ ntpHours = 23

----------------------------------------------------------------------------
(* Claims about the time manager, checked under SpecTime *)

\* The step called syncTime(): from begin(), from update() or from outside.
SyncAttempted(e) ==
    e.op \in {"timeBegin", "syncTime"} \/ (e.op = "timeUpdate" /\ e.arg)

\* C18: a successful syncTime() sets lastSuccessfulSync, adds one to the sync
\* counter and sets the time-valid flag; a failed one writes lastSyncAttempt
\* only; and no step clears the flag once it is set.
C18_SyncFrame ==
    [][ /\ SyncAttempted(ev')
           => /\ lastSyncAttempt' = now
              /\ IF ev'.ret
                 THEN /\ lastSuccessfulSync' = now
                      /\ syncCount' = syncCount + 1
                      /\ timeValid'
                 ELSE UNCHANGED <<lastSuccessfulSync, syncCount, timeValid>>
        /\ timeValid => timeValid' ]_vars

\* C18 witness: a sync failed some time after one had succeeded, and the
\* flag is still set.
C18_Witness ==
    /\ SyncAttempted(ev) /\ ~ev.ret
    /\ timeValid /\ syncCount = 1
    /\ lastSyncAttempt # lastSuccessfulSync

\* C19: needsSync() is true if the time was never valid or if more than the
\* sync interval has passed since the last successful sync, and false when
\* the time is valid and the last successful sync is less than one sync
\* interval old, whatever the counter read when it was recorded.
C19_NeedsSync ==
    /\ ~timeValid => NeedsSync(now)
    /\ (timeValid /\ sinceSync > NTP_UPDATE_INTERVAL_MS) => NeedsSync(now)
    /\ (timeValid /\ sinceSync >= 0 /\ sinceSync < NTP_UPDATE_INTERVAL_MS)
          => ~NeedsSync(now)

\* C19 witness: more than a period of the counter after boot a sync succeeded
\* while the counter read 0, and needsSync() is true right after it.
C19_Witness ==
    /\ timeValid /\ lastSuccessfulSync = 0
    /\ sinceSwitch >= ULONG_RANGE
    /\ sinceSync >= 0 /\ sinceSync < NTP_UPDATE_INTERVAL_MS
    /\ NeedsSync(now)

\* C19, second witness: the last successful sync, recorded at a counter value
\* other than 0, is more than a sync interval old and needsSync() is false.
C19_WitnessStale ==
    /\ timeValid /\ lastSuccessfulSync # 0
    /\ sinceSync > NTP_UPDATE_INTERVAL_MS
    /\ ~NeedsSync(now)

C20_WitnessTooEarly ==
    /\ ev.op = "timeUpdate" /\ ~ev.arg
    /\ NeedsSync(now) /\ sinceAttempt = MIN_SYNC_INTERVAL_MS - 1

----------------------------------------------------------------------------
(* Claims about the WiFi manager, checked under SpecWifi *)

RECURSIVE Pow2(_)
Pow2(n) == IF n = 0 THEN 1 ELSE 2 * Pow2(n - 1)

\* C21: the retry interval is min(30000 * 2^f, 300000), f being the number
\* of connect() calls that failed since the last one that succeeded (or
\* since construction): 60000, 120000, 240000 after one, two and three
\* failures, 300000 from the fourth on, 30000 after a success.
C21_BackoffInterval ==
    reconnectInterval
        = Min(BASE_RECONNECT_INTERVAL_MS * Pow2(failures), MAX_RECONNECT_INTERVAL_MS)

\* C21 witness: a fifth failure in a row left the interval at the cap.
C21_Witness ==
    /\ failures = 5 /\ ev.arg /\ ~ev.ret
    /\ reconnectInterval = MAX_RECONNECT_INTERVAL_MS

\* C21, the reset: a success after four failures brought the interval back
\* to the base.
C21_WitnessReset ==
    /\ failures = 0 /\ ev.arg /\ ev.ret /\ connectionAttempts = 5
    /\ reconnectInterval = BASE_RECONNECT_INTERVAL_MS
    /\ lastSuccessfulConnection = now

\* shouldAttemptReconnect() answers for the real time since the last attempt,
\* within one period of the counter after it.
RetryDue == sinceConnect >= reconnectInterval

\* What shouldAttemptReconnect() answers now, for each status.
RetryAnswer ==
    /\ ~ShouldAttemptReconnect("Connecting", now)
    /\ (sinceConnect >= 0 /\ sinceConnect < ULONG_RANGE)
          => \A status \in {"Disconnected", "Connected", "Failed"} :
                ShouldAttemptReconnect(status, now) <=> RetryDue

\* C22: shouldAttemptReconnect() is false when the status is Connecting and
\* otherwise true exactly when the retry interval has passed since connect()
\* was last entered; update() enters connect() only when the status it has
\* after reading the link is not Connected and the interval has passed, so
\* no retry of update() is closer to the previous attempt than the interval
\* in force.
C22_RetryGate ==
    [][ /\ RetryAnswer'
        /\ (ev'.op = "wifiUpdate" /\ ev'.arg)
              => /\ linkStatus # "WL_CONNECTED"
                 /\ statusTrace'[Len(statusTrace') - 2] # "Connected"
                 /\ RetryDue ]_vars

\* C22 witness: update() found the last attempt failed one millisecond less
\* than the interval ago and did not retry.
C22_Witness ==
    /\ ev.op = "wifiUpdate" /\ ~ev.arg
    /\ ev.status = "Failed" /\ currentStatus = "Failed"
    /\ ev.since = ev.interval - 1

\* C22, the retry: update() retried exactly one interval after the attempt
\* that failed.
C22_WitnessRetry ==
    /\ ev.op = "wifiUpdate" /\ ev.arg
    /\ ev.status = "Failed" /\ ev.since = ev.interval
    /\ ev.interval = 2 * BASE_RECONNECT_INTERVAL_MS

\* C23: forceReconnect() sets the status to Disconnected and enters
\* connect() once, whatever the status and the time since the last attempt;
\* the attempt is counted, stamps lastConnectionAttempt and sets the interval
\* as any other does (the base on success, the double up to the cap on
\* failure), so that after a failure the next retry is not due at once.
C23_ForceReconnect ==
    [][ ev'.op = "forceReconnect"
          => /\ ev'.arg
             /\ statusTrace' = <<currentStatus, "Disconnected", "Connecting", currentStatus'>>
             /\ currentStatus' = IF ev'.ret THEN "Connected" ELSE "Failed"
             /\ connectionAttempts' = connectionAttempts + 1
             /\ lastConnectionAttempt' = UAdd(now, FORCE_RECONNECT_DELAY_MS)
             /\ sinceConnect' = USub(now', lastConnectionAttempt')
             /\ reconnectInterval'
                  = IF ev'.ret THEN BASE_RECONNECT_INTERVAL_MS
                    ELSE Min(2 * reconnectInterval, MAX_RECONNECT_INTERVAL_MS)
             /\ ~ev'.ret => ~RetryDue' ]_vars

\* C23 witness: a forced reconnect one millisecond after a failed attempt,
\* with the retry not due, made an attempt that failed and doubled the
\* interval.
C23_Witness ==
    /\ ev.op = "forceReconnect" /\ ev.arg /\ ~ev.ret
    /\ ev.status = "Failed" /\ ev.since = WIFI_TIMEOUT_MS + 1
    /\ ev.interval = 2 * BASE_RECONNECT_INTERVAL_MS
    /\ reconnectInterval = 2 * ev.interval
    /\ connectionAttempts = 2

\* C23, from Connected: a forced reconnect while connected made an attempt.
C23_WitnessConnected ==
    /\ ev.op = "forceReconnect" /\ ev.arg /\ ev.ret
    /\ ev.status = "Connected" /\ ev.since < ev.interval

\* The changes of currentStatus in the last step: the position in
\* statusTrace of each value that differs from its successor.
StatusChanges == {i \in 1..(Len(statusTrace) - 1) : statusTrace[i] # statusTrace[i + 1]}

\* A change from a to b is an edge of the transition graph.  link: the link
\* status the step found; due: the retry interval had passed when the step
\* began.
GraphEdge(a, b, link, due) ==
    \/ a = "Disconnected" /\ b = "Connecting"
    \/ a = "Connecting" /\ b \in {"Connected", "Failed"}
    \/ a = "Failed" /\ b = "Connecting" /\ due
    \/ a = "Connected" /\ b = "Disconnected" /\ link # "WL_CONNECTED"

\* A change to Connected made by updateStatus() on finding the link up.
PassiveEdge(a, b, link) ==
    a \in {"Disconnected", "Failed"} /\ b = "Connected" /\ link = "WL_CONNECTED"

\* C24: every change of currentStatus made by begin(), update() or connect()
\* is an edge of the graph Disconnected -> Connecting -> Connected or Failed,
\* Failed -> Connecting once the retry interval has passed, Connected ->
\* Disconnected when the link is down.
C24_TransitionGraph ==
    [][ ev'.op \in {"wifiBegin", "wifiUpdate", "connect", "linkChange"}
          => \A i \in StatusChanges' :
                GraphEdge(statusTrace'[i], statusTrace'[i + 1], linkStatus, RetryDue) ]_vars

\* What holds of update(): its changes are edges of the graph or changes to
\* Connected on finding the link up.
C24_TransitionsOfUpdate ==
    [][ ev'.op \in {"wifiUpdate", "linkChange"}
          => \A i \in StatusChanges' :
                \/ GraphEdge(statusTrace'[i], statusTrace'[i + 1], linkStatus, RetryDue)
                \/ PassiveEdge(statusTrace'[i], statusTrace'[i + 1], linkStatus) ]_vars

\* C24 witness: update() found the link up after the last attempt had
\* failed, and set the status to Connected without entering connect().
C24_Witness ==
    /\ ev.op = "wifiUpdate" /\ ~ev.arg
    /\ statusTrace = <<"Failed", "Connected">>
    /\ connectionAttempts = 1
    /\ reconnectInterval = 2 * BASE_RECONNECT_INTERVAL_MS

\* C24, connect() from outside: it left Connected for Connecting, and left
\* Failed for Connecting before the retry was due.
C24_WitnessConnect ==
    /\ ev.op = "connect"
    /\ \/ statusTrace[1] = "Connected"
       \/ statusTrace[1] = "Failed" /\ ev.since < ev.interval

----------------------------------------------------------------------------
(* Claims about the engine's counters and the sync timestamp *)

\* The step changed the relay's state.
RelayChanged == currentState' # currentState

\* C25: relayChanges is the number of changes of the relay's state made by
\* update(), forceUpdate() and setAutomaticControl(): each of these calls
\* adds one to relayChanges exactly when it changes the state (both counts
\* start at zero, so they agree after every sequence of calls exactly when
\* every call adds the same to both).
C25_ChangesCounted ==
    [][ ev'.op \in {"update", "forceUpdate", "setAutomaticControl"}
          => relayChanges' = relayChanges + (IF RelayChanged THEN 1 ELSE 0) ]_vars

\* What holds: the changes made by decision ticks are counted.
C25_TickChangesCounted ==
    [][ ev'.op \in {"update", "forceUpdate"}
          => relayChanges' = relayChanges + (IF RelayChanged THEN 1 ELSE 0) ]_vars

\* C25 witness: a tick turned the relay on and setAutomaticControl(false)
\* turned it off; the relay changed twice and relayChanges is 1.
C25_Witness ==
    /\ ev.op = "setAutomaticControl" /\ ~ev.arg /\ ev.requested /\ ev.ret
    /\ ev.prev = TRUE /\ currentState = FALSE
    /\ relayChanges = 1

C26_WitnessWrapped ==
    /\ SyncAttempted(ev) /\ ev.ret
    /\ syncCount = 2 /\ lastSuccessfulSync = now
    /\ lastSyncAttempt = now /\ now = 0

----------------------------------------------------------------------------
(* Claims about the engine polled by loop(), checked under SpecHeal *)

\* The state the relay should have: on exactly when the hour is inside the
\* schedule and the averaged lux is below the threshold.
Desired == InWindow /\ Dark

\* Automatic control is enabled, time is valid, the sensor is healthy and
\* the desired state is d.
HealPremise(d) ==
    /\ timeBegun /\ automaticControlEnabled
    /\ HasValidTime /\ IsSensorHealthy(now)
    /\ Desired = d

\* The run goes on long enough: time will still advance past the end of the
\* dwell, and every poll that comes due until then can be evaluated.
HealHorizon ==
    LET left == MaxAdvancesHeal - advances IN
    /\ left >= 1
    /\ sinceSwitch + left * CHECK_INTERVAL_MS >= MIN_SWITCH_INTERVAL_MS
    /\ MaxDecisions - decisionCount >= left + (IF UpdateDue(now) THEN 1 ELSE 0)

----------------------------------------------------------------------------
(* Further claims about the engine's operations, checked under SpecPoll *)

\* C28: with automatic control disabled update() evaluates nothing: the last
\* decision, its reason and time, decisionCount, relayChanges and the relay
\* stay as they were, and nothing but lastUpdateTime is written, which
\* becomes the time of the call when the poll interval has passed.
C28_DisabledUpdateIdle ==
    [][ (ev'.op = "update" /\ ~automaticControlEnabled)
          => /\ ~ev'.evaluated /\ ~ev'.requested
             /\ UNCHANGED <<lastDecision, lastReason, lastDecisionTime, decisionCount,
                            relayChanges, currentState, lastSwitchTime>>
             /\ UNCHANGED <<now, relayBegun, sensorVars, timeVars, wifiVars,
                            automaticControlEnabled>>
             /\ lastUpdateTime' = IF UpdateDue(now) THEN now ELSE lastUpdateTime ]_vars

\* C28 witness: with automatic control disabled after a first decision, an
\* update() that came due moved the poll timer and nothing else.
C28_Witness ==
    /\ ev.op = "update" /\ ~ev.evaluated /\ ~automaticControlEnabled
    /\ lastUpdateTime = now /\ sinceUpdate = 0
    /\ decisionCount = 1 /\ lastDecisionTime # now

----------------------------------------------------------------------------
(* Further claims about the averager, checked under SpecAverage *)

\* The averager as the constructor leaves it.
EmptyAverager ==
    /\ readingBuffer = EmptyBuffer
    /\ bufferIndex = 0
    /\ ~bufferFull
    /\ currentAverageLux.num = 0

\* Samples were accepted before the last reset and k >= 1 after it, and the
\* average is the mean of the last min(k, SENSOR_SAMPLES) of those after it.
MeanSinceReset ==
    (readingCount > Len(accepted) /\ Len(accepted) >= 1)
      => LET n == Min(Len(accepted), SENSOR_SAMPLES) IN
         /\ bufferIndex = Len(accepted) % SENSOR_SAMPLES
         /\ bufferFull = (Len(accepted) >= SENSOR_SAMPLES)
         /\ currentAverageLux.den > 0
         /\ currentAverageLux.num * n = SumLast(accepted, n) * currentAverageLux.den

\* C29: resetAveraging() leaves the cursor at 0, the full flag false, the
\* average 0 and every slot 0; and after it the average over the next k
\* accepted samples is the mean of the last min(k, SENSOR_SAMPLES) of them,
\* whatever was accepted before the reset.
C29_ResetEmpties ==
    [][ /\ ev'.op = "resetAveraging" => EmptyAverager'
        /\ MeanSinceReset' ]_vars

\* C29 witness: five samples were accepted and the buffer was full, the
\* averager was reset, two samples of 50 were accepted, and the average is
\* 50 with the last slot still 0.
C29_Witness ==
    /\ readingCount = SENSOR_SAMPLES + 2
    /\ accepted = <<50, 50>>
    /\ lastRawLux = 50
    /\ bufferIndex = 2 /\ ~bufferFull
    /\ readingBuffer[SENSOR_SAMPLES] = 0
    /\ currentAverageLux.num = 50 * currentAverageLux.den

----------------------------------------------------------------------------
(* Claims about the engine beside the WiFi manager, checked under SpecLoop *)

\* The decision and reason of a tick as a function of time validity, sensor
\* health, the relay's dwell gate, the hour, the average and the relay's
\* state, and of nothing else.
IsolatedDecision ==
    IF ~TimeIsValid THEN <<"WaitForData", "NoValidTime">>
    ELSE IF ~IsSensorHealthy(now) THEN <<"WaitForData", "SensorFailure">>
    ELSE IF ~CanSwitchRelay(now) THEN <<"WaitForData", "RelayBusy">>
    ELSE Prescribed

\* C30: whatever the state of the WiFi manager and of the link, a decision
\* tick records the decision and reason that time validity, sensor health,
\* the dwell gate, the hour, the average and the relay's state determine,
\* and changes the relay as that decision and the dwell gate determine: two
\* states that agree on these and differ in the WiFi manager's state get the
\* same decision, reason and effect on the relay.
C30_WifiDoesNotInterfere ==
    [][ ev'.evaluated
          => /\ <<lastDecision', lastReason'>> = IsolatedDecision
             /\ ev'.requested = (IsolatedDecision[1] \in {"TurnOn", "TurnOff"})
             /\ ev'.requested => /\ ev'.arg = (IsolatedDecision[1] = "TurnOn")
                                 /\ ev'.ret = CanSwitchRelay(now')
             /\ currentState' = IF ev'.requested /\ ev'.ret THEN ev'.arg
                                ELSE currentState
             /\ UNCHANGED wifiVars ]_vars

\* C30 witness: a tick turned the relay on after the link was lost and the
\* WiFi manager had noticed it.
C30_Witness ==
    /\ ev.evaluated /\ ev.requested /\ ev.arg /\ ev.ret /\ currentState
    /\ wifiBegun /\ currentStatus = "Disconnected" /\ linkStatus # "WL_CONNECTED"

\* C30, connected: a tick turned the relay on while WiFi was connected.
C30_WitnessConnected ==
    /\ ev.evaluated /\ ev.requested /\ ev.arg /\ ev.ret /\ currentState
    /\ IsConnected

----------------------------------------------------------------------------
(* Claims about what the engine may do to the relay, checked under Spec *)

\* The step switched the relay on.
SwitchedOn == ~currentState /\ currentState'

\* C31: while automatic control is disabled, neither update() nor
\* forceUpdate() switches the relay from off to on.
C31_DisabledNeverSwitchesOn ==
    [][ (ev'.op \in {"update", "forceUpdate"} /\ ~automaticControlEnabled)
          => ~SwitchedOn ]_vars

\* What holds: while automatic control is disabled update() does not switch
\* the relay on.
C31_DisabledUpdateNeverSwitchesOn ==
    [][ (ev'.op = "update" /\ ~automaticControlEnabled) => ~SwitchedOn ]_vars

\* C31 witness: with automatic control disabled, forceUpdate() decided
\* TurnOn and the relay went on.
C31_Witness ==
    /\ ev.op = "forceUpdate" /\ ev.requested /\ ev.arg /\ ev.ret
    /\ ev.prev = FALSE /\ currentState
    /\ ~automaticControlEnabled
    /\ lastDecision = "TurnOn" /\ lastReason = "InScheduleDark"

\* The tick recorded a decision that asks the relay to change.
DecidedToSwitch == ev'.evaluated /\ lastDecision' \in {"TurnOn", "TurnOff"}

\* C32 as stated: every tick that records TurnOn or TurnOff changes the
\* relay's state and adds one to relayChanges.
C32_RequestsAccepted ==
    [][ DecidedToSwitch
          => /\ currentState' # currentState
             /\ relayChanges' = relayChanges + 1 ]_vars

\* C32 amended: a tick that records TurnOn or TurnOff makes the request; the
\* relay accepts it, changes state and is counted when the dwell gate is
\* still open at the time of the request, and rejects it only when the
\* elapsed-time difference wrapped between the health gate and the request,
\* the relay's timer being a whole period of the counter old.
C32_RequestsAcceptedUnlessWrapped ==
    [][ DecidedToSwitch
          => /\ ev'.requested
             /\ ev'.arg = (lastDecision' = "TurnOn")
             /\ CanSwitchRelay(now)
             /\ IF CanSwitchRelay(now')
                THEN /\ ev'.ret
                     /\ currentState' = ev'.arg /\ currentState' # currentState
                     /\ relayChanges' = relayChanges + 1
                ELSE /\ ~ev'.ret
                     /\ now' # now
                     /\ sinceSwitch >= ULONG_RANGE - 1
                     /\ currentState' = currentState
                     /\ relayChanges' = relayChanges ]_vars

\* C32 witness: a tick decided TurnOff one dwell after a tick had turned the
\* relay on, and the relay went off: two decisions, two changes.
C32_Witness ==
    /\ ev.evaluated /\ ev.requested /\ ~ev.arg /\ ev.ret
    /\ ev.prev /\ ~currentState
    /\ lastDecision = "TurnOff"
    /\ decisionCount = 2 /\ relayChanges = 2

\* C32, the rejection: a tick decided TurnOff and the relay, whose timer was
\* a period of the counter old, rejected the request.
C32_WitnessBlocked ==
    /\ ev.evaluated /\ ev.requested /\ ~ev.arg /\ ~ev.ret
    /\ ev.prev /\ currentState
    /\ lastDecision = "TurnOff"

\* The reasons of a failed health gate.
GateReasons == {"NoValidTime", "SensorFailure", "RelayBusy"}

\* C33: the recorded decision is WaitForData exactly when the recorded
\* reason is NoValidTime, SensorFailure or RelayBusy; TurnOn goes with
\* InScheduleDark only, TurnOff with OutOfSchedule or InScheduleBright only,
\* KeepCurrent with OutOfSchedule, InScheduleDark or InScheduleBright only.
C33_DecisionReasonConsistent ==
    /\ lastDecision \in {"TurnOn", "TurnOff", "KeepCurrent", "WaitForData"}
    /\ lastDecision = "WaitForData" <=> lastReason \in GateReasons
    /\ lastDecision = "TurnOn" => lastReason = "InScheduleDark"
    /\ lastDecision = "TurnOff" => lastReason \in {"OutOfSchedule", "InScheduleBright"}
    /\ lastDecision = "KeepCurrent"
          => lastReason \in {"OutOfSchedule", "InScheduleDark", "InScheduleBright"}

\* C33 witness: a tick found the relay on in the dark inside the schedule
\* and recorded KeepCurrent/InScheduleDark.
C33_Witness ==
    /\ ev.evaluated /\ ~ev.requested /\ currentState
    /\ lastDecision = "KeepCurrent" /\ lastReason = "InScheduleDark"

----------------------------------------------------------------------------
(* Claims about the engine and the averager's reset, checked under SpecReset *)

\* C34: every tick that records TurnOn finds at least one sample accepted
\* since the averager was last reset (or constructed).
C34_TurnOnNeedsSamples ==
    [][ (ev'.evaluated /\ lastDecision' = "TurnOn") => Len(accepted) >= 1 ]_vars

\* What holds: a tick records TurnOn only when the sensor is healthy and the
\* stored average is below the threshold, whatever the window holds.
C34_TurnOnNeedsLowAverage ==
    [][ (ev'.evaluated /\ lastDecision' = "TurnOn")
          => /\ IsSensorHealthy(now)
             /\ Dark ]_vars

\* C34 witness: samples of 150 lux were accepted, the averager was reset,
\* and a tick within a minute of the last reading decided TurnOn on the
\* empty window's average of 0 and switched the relay on.
C34_Witness ==
    /\ ev.evaluated /\ ev.requested /\ ev.arg /\ ev.ret /\ currentState
    /\ lastDecision = "TurnOn" /\ lastReason = "InScheduleDark"
    /\ accepted = <<>> /\ readingCount >= 1 /\ lastRawLux = 150
    /\ currentAverageLux.num = 0

----------------------------------------------------------------------------
(* Further claims about the WiFi manager, checked under SpecWifi *)

\* C35: whenever the status is Connected the retry interval is the base
\* interval, also when update() found the link up after failed attempts.
C35_ConnectedAtBaseInterval ==
    currentStatus = "Connected" => reconnectInterval = BASE_RECONNECT_INTERVAL_MS

\* What holds: a connect() that succeeds leaves the status Connected and the
\* interval at the base, and nothing but a failed connect() raises it.
C35_ConnectResetsInterval ==
    [][ /\ (ev'.arg /\ ev'.ret)
           => /\ currentStatus' = "Connected"
              /\ reconnectInterval' = BASE_RECONNECT_INTERVAL_MS
        /\ reconnectInterval' > reconnectInterval => (ev'.arg /\ ~ev'.ret) ]_vars

\* C35 witness: four attempts failed, the link came up on its own, and
\* update() set the status to Connected with the interval at the cap.
C35_Witness ==
    /\ ev.op = "wifiUpdate" /\ ~ev.arg
    /\ ev.status = "Failed" /\ currentStatus = "Connected" /\ IsConnected
    /\ failures = 4
    /\ reconnectInterval = MAX_RECONNECT_INTERVAL_MS

----------------------------------------------------------------------------
(* setup() and loop() of main.cpp with the positions of setup() *)

\* wifiTimeout of waitForSystemReady()
WIFI_READY_TIMEOUT_MS == 60000

\* timeTimeout of waitForSystemReady()
TIME_READY_TIMEOUT_MS == 30000

\* the readings waitForSystemReady() takes before it returns
STARTUP_READINGS == 5

MaxAdvancesBoot == 2
MaxAttemptsBoot == 2
MaxReadingsBoot == 6
MaxDecisionsBoot == 2

\* The room is dark while setup() runs.
StartupSamples == {[nan |-> FALSE, v |-> 50]}

\* The global timeManager (main.cpp:20) and the pointer the engine keeps
\* (plantcontroller.cpp:16): the object is created and begun in one place
\* (main.cpp:156-157), and the pointer is null before that and after
\* main.cpp:178.
TimeManagerIsNull == ~timeBegun

\* The engine was constructed without a time manager.
EngineWithoutTimeManager == pc \in {"begin", "loop"} /\ TimeManagerIsNull

\* A step of setup() that calls no component: only the position moves.
Goto(name, next) ==
    /\ pc' = next
    /\ ev' = [NoEvent EXCEPT !.op = name]
    /\ Observe(0, FALSE, FALSE, name)
    /\ UNCHANGED <<now, advances, relayVars, sensorVars, timeVars, plantVars, wifiVars>>

\* initializeComponents() has returned; waitForSystemReady() reads millis()
\* (main.cpp:141).
StartWifiWait ==
    /\ pc = "setup" /\ wifiBegun /\ sensorInitialized
    /\ Goto("waitForSystemReady", "waitWifi")
    /\ wifiStartTime' = now
    /\ UNCHANGED timeStartTime

\* The condition of the first wait loop (main.cpp:144).
WifiWaitGoesOn ==
    ~IsConnected /\ USub(now, wifiStartTime) < WIFI_READY_TIMEOUT_MS

\* wifiManager->update() in the first wait loop (main.cpp:145).
WifiWaitUpdate ==
    /\ pc = "waitWifi" /\ TimeManagerIsNull /\ WifiWaitGoesOn
    /\ WifiUpdate
    /\ connectionAttempts' <= MaxAttemptsBoot

\* new TimeManager and begin() once the WiFi manager says it is connected
\* (main.cpp:151-157).
BootTimeBegin ==
    /\ pc = "waitWifi" /\ IsConnected
    /\ TimeBegin

\* The second wait starts (main.cpp:161).
StartTimeWait ==
    /\ pc = "waitWifi" /\ ~TimeManagerIsNull
    /\ Goto("waitForTime", "waitTime")
    /\ timeStartTime' = now
    /\ UNCHANGED wifiStartTime

\* The condition of the second wait loop (main.cpp:164).
TimeWaitGoesOn ==
    ~HasValidTime /\ USub(now, timeStartTime) < TIME_READY_TIMEOUT_MS

\* timeManager->update() in the second wait loop (main.cpp:165).
TimeWaitUpdate ==
    /\ pc = "waitTime" /\ TimeWaitGoesOn
    /\ TimeUpdate

\* The second wait is over, with or without a valid time (main.cpp:171-175).
TimeWaitOver ==
    /\ pc = "waitTime" /\ ~TimeWaitGoesOn
    /\ Goto("timeReady", "readings")
    /\ UNCHANGED <<wifiStartTime, timeStartTime>>

\* The first wait ran out with WiFi not connected: timeManager = nullptr
\* (main.cpp:176-179).
NoTimeManager ==
    /\ pc = "waitWifi" /\ TimeManagerIsNull
    /\ ~IsConnected /\ ~(USub(now, wifiStartTime) < WIFI_READY_TIMEOUT_MS)
    /\ Goto("noTimeManager", "readings")
    /\ UNCHANGED <<wifiStartTime, timeStartTime>>

\* The initial readings (main.cpp:183-186), each of them accepted; the
\* delay(500) between them is shorter than every interval the program
\* compares against and is left out.
StartupReading ==
    /\ pc = "readings" /\ readingCount < STARTUP_READINGS
    /\ \E r \in StartupSamples : UpdateReadingUpTo(r, MaxReadingsBoot)

\* new PlantController(wifiManager, timeManager, ...) with the pointer as
\* waitForSystemReady() left it (main.cpp:64).
ConstructEngine ==
    /\ pc = "readings" /\ readingCount = STARTUP_READINGS
    /\ Goto("newPlantController", "begin")
    /\ UNCHANGED <<wifiStartTime, timeStartTime>>

\* plantController->begin() (main.cpp:65), which is forceUpdate()
\* (plantcontroller.cpp:56), with a time manager.
EngineBegin ==
    /\ pc = "begin" /\ ~TimeManagerIsNull /\ decisionCount = 0
    /\ ForceUpdate

\* begin() has returned and with it setup(); loop() runs from now on.
EnterLoop ==
    /\ pc = "begin" /\ decisionCount > 0
    /\ Goto("loop", "loop")
    /\ UNCHANGED <<wifiStartTime, timeStartTime>>

\* What a call through the null pointer can do: the load from the object's
\* fields traps, or it yields whatever the memory near address zero holds
\* and the function returns true or false.
NullReads == {"fault", "true", "false"}

\* The processor trapped inside the operation name: the program stops
\* where it is.  update() has written lastUpdateTime by then
\* (plantcontroller.cpp:68).
Fault(name) ==
    /\ pc' = "fault"
    /\ lastUpdateTime' = IF name = "update" THEN now ELSE lastUpdateTime
    /\ ev' = [NoEvent EXCEPT !.op = name]
    /\ Observe(0, FALSE, FALSE, name)
    /\ UNCHANGED <<now, advances, relayVars, sensorVars, timeVars, wifiVars,
                   wifiStartTime, timeStartTime>>
    /\ UNCHANGED <<lastDecision, lastReason, lastDecisionTime, decisionCount,
                   relayChanges, automaticControlEnabled>>

\* validateComponents(reason) when timeManager->hasValidTime() answers valid.
ValidateComponentsGiven(valid, t) ==
    IF ~valid THEN [ok |-> FALSE, reason |-> "NoValidTime"]
    ELSE IF ~IsSensorHealthy(t) THEN [ok |-> FALSE, reason |-> "SensorFailure"]
    ELSE IF ~CanSwitchRelay(t) THEN [ok |-> FALSE, reason |-> "RelayBusy"]
    ELSE [ok |-> TRUE, reason |-> "unset"]

\* analyzeConditions(reason) when hasValidTime() answers valid and
\* isTimeInRange() answers inSchedule.
AnalyzeConditionsGiven(valid, inSchedule, t) ==
    LET v == ValidateComponentsGiven(valid, t) IN
    IF ~v.ok THEN [decision |-> "WaitForData", reason |-> v.reason]
    ELSE IF ~inSchedule
    THEN [decision |-> IF currentState THEN "TurnOff" ELSE "KeepCurrent",
          reason |-> "OutOfSchedule"]
    ELSE IF IsAmbientLightLow
    THEN [decision |-> IF currentState THEN "KeepCurrent" ELSE "TurnOn",
          reason |-> "InScheduleDark"]
    ELSE [decision |-> IF currentState THEN "TurnOff" ELSE "KeepCurrent",
          reason |-> "InScheduleBright"]

\* What a tick leaves behind when hasValidTime() answered valid.
EvaluatedGiven(name, a, x, e, tDecision, valid) ==
    /\ decisionCount < MaxDecisions
    /\ now' = UAdd(now, e)
    /\ currentState' = x.relay.state
    /\ lastSwitchTime' = x.relay.time
    /\ relayChanges' = relayChanges + x.changes
    /\ lastDecision' = a.decision
    /\ lastReason' = a.reason
    /\ lastDecisionTime' = tDecision
    /\ decisionCount' = decisionCount + 1
    /\ ObserveRun(e, x.relay.wrote, x.relay.state # currentState, "setRelayState",
                  name = "update")
    /\ ev' = TickEvent(name, x.arg, x.relay.ret, x.requested,
                       valid, IsSensorHealthy(now), CanSwitchRelay(now))

\* A tick of the engine that holds no time manager: validateComponents()
\* calls hasValidTime() through the null pointer (plantcontroller.cpp:229)
\* and, when the gate passes, isWithinSchedule() calls isTimeInRange()
\* through it (plantcontroller.cpp:175).
TickWithoutTimeManager(name) ==
    \E v \in NullReads, s \in NullReads :
       IF v = "fault" \/ (ValidateComponentsGiven(v = "true", now).ok /\ s = "fault")
       THEN Fault(name)
       ELSE LET a == AnalyzeConditionsGiven(v = "true", s = "true", now) IN
            \E e \in TickElapsed :
               /\ a.decision \in {"KeepCurrent", "WaitForData"} => e = 0
               /\ LET x == IF name = "forceUpdate"
                              \/ a.decision \notin {"KeepCurrent", "WaitForData"}
                           THEN ExecuteDecision(a.decision, UAdd(now, e))
                           ELSE NoRequest
                  IN EvaluatedGiven(name, a, x, e,
                                    IF name = "forceUpdate" THEN UAdd(now, e) ELSE now,
                                    v = "true")
               /\ lastUpdateTime' = IF name = "update" THEN now ELSE lastUpdateTime
               /\ UNCHANGED <<automaticControlEnabled, advances, wifiVars, relayBegun,
                              sensorVars, timeVars, bootVars>>

\* plantController->begin() (main.cpp:65) without a time manager.
EngineBeginWithoutTimeManager ==
    /\ pc = "begin" /\ TimeManagerIsNull /\ decisionCount = 0
    /\ TickWithoutTimeManager("forceUpdate")

\* plantController->update() in loop() (main.cpp:100) with a time manager.
LoopUpdate ==
    /\ pc = "loop" /\ ~TimeManagerIsNull
    /\ Update
    /\ decisionCount' <= MaxDecisionsBoot

\* plantController->update() in loop() without one: the interval check
\* (plantcontroller.cpp:64-66), then the tick; automatic control is never
\* disabled by main.cpp.
LoopUpdateWithoutTimeManager ==
    /\ pc = "loop" /\ TimeManagerIsNull /\ automaticControlEnabled
    /\ IF ~UpdateDue(now)
       THEN /\ ev' = Event("update", FALSE, FALSE, FALSE)
            /\ Observe(0, FALSE, FALSE, "update")
            /\ UNCHANGED <<now, advances, relayVars, sensorVars, timeVars, plantVars,
                           wifiVars, bootVars>>
       ELSE TickWithoutTimeManager("update") /\ decisionCount' <= MaxDecisionsBoot

\* wifiManager->update() in loop() (main.cpp:84).
LoopWifiUpdate ==
    /\ pc = "loop"
    /\ WifiUpdate
    /\ connectionAttempts' <= MaxAttemptsBoot

\* timeManager->update() in loop() with a time manager (main.cpp:87-89).
LoopTimeUpdateWith ==
    /\ pc = "loop" /\ ~TimeManagerIsNull
    /\ LoopTimeUpdate

\* timeManager->update() in loop() without one, once WiFi is connected after
\* all: update() reads its fields through the null pointer
\* and its NTP client (timemanager.cpp:51-63), which traps or changes nothing.
LoopTimeUpdateWithoutTimeManager ==
    /\ pc = "loop" /\ TimeManagerIsNull /\ IsConnected
    /\ \E v \in NullReads \ {"true"} :
          IF v = "fault" THEN Fault("timeUpdate")
          ELSE /\ ev' = Event("timeUpdate", FALSE, FALSE, FALSE)
               /\ Observe(0, FALSE, FALSE, "timeUpdate")
               /\ UNCHANGED <<now, advances, relayVars, sensorVars, timeVars, plantVars,
                              wifiVars, bootVars>>

\* lightSensor->updateReading() in loop() (main.cpp:92-98).
LoopReading ==
    /\ pc = "loop"
    /\ \E r \in LoopSamples \ StartupSamples : UpdateReadingUpTo(r, MaxReadingsBoot)

\* Time passes while setup() waits or loop() runs.  In the first wait: up to
\* the next iteration in which update() retries or the wait runs out, when
\* update() has nothing to do before that; in the second wait: up to its
\* end; in loop(): one poll interval of the engine.
DeltasBoot ==
    IF pc = "waitWifi"
    THEN {Min(reconnectInterval - USub(now, lastConnectionAttempt),
              WIFI_READY_TIMEOUT_MS - USub(now, wifiStartTime))}
    ELSE IF pc = "waitTime"
    THEN {TIME_READY_TIMEOUT_MS - USub(now, timeStartTime)}
    ELSE {CHECK_INTERVAL_MS}

AdvanceBoot ==
    /\ \/ /\ pc = "waitWifi" /\ TimeManagerIsNull /\ WifiWaitGoesOn
          /\ UpdatedStatus = currentStatus
          /\ ~ShouldAttemptReconnect(currentStatus, now)
       \/ pc = "waitTime" /\ TimeWaitGoesOn
       \/ pc = "loop"
    /\ advances < MaxAdvancesBoot
    /\ advances' = advances + 1
    /\ \E d \in DeltasBoot :
          /\ now' = UAdd(now, d)
          /\ Observe(d, FALSE, FALSE, "advance")
    /\ ev' = [NoEvent EXCEPT !.op = "advance"]
    /\ UNCHANGED <<relayVars, sensorVars, timeVars, plantVars, wifiVars, bootVars>>

\* The program from power-on: initializeComponents() (main.cpp:112-135),
\* waitForSystemReady() with both of its branches, the engine's
\* construction and begin(), then loop(), while the link comes and goes and
\* the hour of the day changes.
NextBoot ==
    \/ pc = "setup" /\ WifiBegin
    \/ pc = "setup" /\ wifiBegun /\ RelayBegin
    \/ pc = "setup" /\ LightBegin
    \/ StartWifiWait
    \/ WifiWaitUpdate
    \/ BootTimeBegin
    \/ StartTimeWait
    \/ TimeWaitUpdate
    \/ TimeWaitOver
    \/ NoTimeManager
    \/ StartupReading
    \/ ConstructEngine
    \/ EngineBegin
    \/ EngineBeginWithoutTimeManager
    \/ EnterLoop
    \/ LoopWifiUpdate
    \/ LoopTimeUpdateWith
    \/ LoopTimeUpdateWithoutTimeManager
    \/ LoopReading
    \/ LoopUpdate
    \/ LoopUpdateWithoutTimeManager
    \/ pc # "fault" /\ LinkChange
    \/ pc # "fault" /\ NtpClock
    \/ AdvanceBoot

SpecBoot == Init /\ [][NextBoot]_vars

----------------------------------------------------------------------------
(* Claims about the bring-up, checked under SpecBoot *)

\* C36: unavailable time is never an uncaught fault: in no execution of
\* setup() and loop(), the one in which the initial WiFi connection fails
\* and no time manager is created included, does an operation use a time
\* manager that does not exist, and every tick of the engine in that
\* situation records WaitForData with NoValidTime.
C36_NoUseOfMissingTimeManager ==
    /\ pc # "fault"
    /\ (EngineWithoutTimeManager /\ ev.evaluated)
          => (lastDecision = "WaitForData" /\ lastReason = "NoValidTime")

\* C36, what holds: the program stops in a fault only when it runs without
\* a time manager, and with one every tick is evaluated from the time
\* manager's own answer.
C36_FaultOnlyWithoutTimeManager ==
    /\ pc = "fault" => TimeManagerIsNull
    /\ (ev.evaluated /\ ~TimeManagerIsNull /\ ~ev.valid)
          => (lastDecision = "WaitForData" /\ lastReason = "NoValidTime")

\* C36 witness: WiFi never connected during the wait, no time manager was
\* created, five readings were taken, and begin()'s first evaluation
\* stopped the program in the health gate.
C36_Witness ==
    /\ pc = "fault" /\ ev.op = "forceUpdate"
    /\ TimeManagerIsNull /\ ~IsConnected
    /\ readingCount = STARTUP_READINGS /\ decisionCount = 0
    /\ ~(USub(now, wifiStartTime) < WIFI_READY_TIMEOUT_MS)

============================================================================
